---- MODULE Spec2Model ----
(***************************************************************************)
(* A model of the distributed-training coordinator core:                   *)
(*   - GradientAggregator   (src/core/gradient_aggregator.py)              *)
(*   - DistributedTrainingLoop.run_training (src/core/training_loop.py)    *)
(*   - ModelManager         (src/core/model_manager.py)                    *)
(*   - ConnectionProfile / NetworkQualityMonitor (src/core/network_monitor.py) *)
(*   - DynamicNodeSelector  (src/core/node_selector.py)                    *)
(* Each component has its own specification over the shared variable list; *)
(* the variables of the other components stay at their initial values.     *)
(***************************************************************************)
EXTENDS Integers, Sequences, FiniteSets, TLC

(***************************************************************************)
(* Bounds of the model                                                     *)
(***************************************************************************)
NumNodes == 2
MaxRound == 2
MaxRejected == 1
MaxTime == 30
MaxVersion == 4
MaxParam == 2
MaxSamples == 5
MaxMonitorTime == 90
MaxContributions == 5
MaxWorkerContributions == 8
MaxScenarioSuccesses == 4
MaxScenarioFailures == 8
MaxFastSamples == 10
MaxShards == 3
MaxSlowSamples == 3
MaxSelectorTime == 300
MaxOrchRound == 8
MaxMetrics == 6
MaxOrchTime == 30
\* AdaptiveOrchestrator(adaptation_interval=...), in rounds
adaptation_interval == 2

(***************************************************************************)
(* Program constants                                                       *)
(***************************************************************************)
TimeoutSeconds == 30
DefaultMinNodesPct == 80
HistoryLimit == 100

Nodes == 1..NumNodes
\* node_ids, the ordered list run_training is started with
node_ids == [i \in 1..NumNodes |-> i]
\* a gradient dict is abstracted to one number per worker; NoGrad marks a worker
\* with no entry in received_gradients, NaN a dict holding a NaN or Inf
NoGrad == [kind |-> "none"]
NaN == [kind |-> "nan"]
Grad(v) == [kind |-> "val", v |-> v]
GradVals == {Grad(1), Grad(2)}
Submissions == GradVals \cup {NaN}
\* a gradient dict of finite values in which one parameter's array has
\* another shape than the model's parameter
Misshaped == [kind |-> "shape"]
\* round_start_time is None until the first start_round
NoTime == -1
\* the clock advances in steps of half the round timeout
TickStep == TimeoutSeconds \div 2
\* min_nodes_percentage, in percent: the default and one half
MinNodesPercentages == {DefaultMinNodesPct, 50}
\* parameter_hash is None until the model is initialised
NoHash == -1

\* ConnectionProfile: history_size, quality_change_threshold, the seconds
\* without a successful communication after which a worker counts as offline
history_size == 50
quality_change_threshold == 3
OfflineGraceSeconds == 60
\* ConnectionQuality
Bands == {"excellent", "good", "fair", "poor", "critical", "offline"}
\* pending_quality_change is None while no change is pending
NoPending == "none"
\* the communications recorded: a fast success, a slow success, a slow failure
Samples == {[latency_ms |-> 20, success |-> TRUE],
            [latency_ms |-> 400, success |-> TRUE],
            [latency_ms |-> 400, success |-> FALSE]}
\* the monitor's clock advances in steps of half the offline grace period
MonTickStep == OfflineGraceSeconds \div 2

\* DynamicNodeSelector.__init__ defaults
min_quality_score == 30
quarantine_threshold == 5
quarantine_duration == 300
probation_steps == 3
\* SelectionStrategy, and the strategy __init__ defaults to
DefaultStrategy == "adaptive_threshold"
Strategies == {"all_available", "quality_threshold", "top_n", "adaptive_threshold",
               "contribution_based"}
\* NodeState, and "unregistered" for a worker with no entry in node_states
NodeStates == {"active", "probation", "quarantined", "excluded"}
\* probation_progress has no entry for the worker
NoProgress == -1
\* network_monitor.get_node_profile returns None for the worker
NoProfile == -1
\* the quality scores the network monitor reports at a selection
QualityScores == {NoProfile, 20, 90}
\* node_contributions has no entry for the worker / the entry register_node writes
NoContributions == [registered |-> FALSE, compute_time |-> 0, waiting_time |-> 0,
                    successful_contributions |-> 0, failed_contributions |-> 0]
ZeroContributions == [NoContributions EXCEPT !.registered = TRUE]
\* the compute and waiting times reported with a contribution
ContributionTimes == {[compute_time |-> 1, waiting_time |-> 1]}
\* the selector's clock advances in steps of half the quarantine duration
SelTickStep == quarantine_duration \div 2

\* AdaptiveOrchestrator, AdaptiveBatchController and the node registry
warmup_rounds == 2
RollbackWindow == 5
TrendMinRecords == 5
RollbackMinRecords == 6
ConvergenceRecords == 20
max_history == 10
MetricsLimit == 100
baseline_batch_size == 64
min_batch_size == 16
max_batch_size == 256
BatchAdaptationSeconds == 30
DefaultPolicy == "reactive"
AdaptationPolicies == {"conservative", "aggressive", "reactive", "proactive"}
TrainingPhases == {"initialization", "warmup", "adaptive_training", "convergence",
                   "completed"}
NodeStatuses == {"initializing", "ready", "training", "idle", "degraded", "offline",
                 "error"}
\* a worker the registry holds no entry for
NoStatus == "unregistered"
\* a worker the batch controller has not registered
NoBatch == 0
\* no round is in progress
NoDecisions == [made |-> FALSE]
\* average_loss values a round reports
Losses == {1, 2}
\* BatchSizeStrategy
\* gradient_metadata has no entry for the node (metadata None or empty);
\* otherwise whether the metadata has the key "data_samples", and its value
NoGradientMetadata == [given |-> FALSE, has_samples |-> FALSE, data_samples |-> 0]
\* the metadata submitted with a gradient: none, one without data_samples,
\* and data_samples 0, 1 and 3
GradientMetadata(has_samples, data_samples) ==
    [given |-> TRUE, has_samples |-> has_samples, data_samples |-> data_samples]
MetadataInputs == {NoGradientMetadata, GradientMetadata(FALSE, 0),
                   GradientMetadata(TRUE, 0), GradientMetadata(TRUE, 1),
                   GradientMetadata(TRUE, 3)}
\* aggregate_round has returned nothing yet, or None
NoAggregate == [kind |-> "none", num |-> 0, den |-> 1]
\* self.shards has no entry for the node
NoShard == 0
\* shard_index is None
NoIndex == -1
BatchSizeStrategies == {"fixed", "latency_based", "throughput_based", "hybrid"}
DefaultBatchStrategy == "hybrid"
\* what is observed of the batch controller when it has not been called at
\* the current clock value
NoBatchCall == [op |-> "none", passed |-> FALSE, changes |-> {},
                after_evaluation |-> FALSE]
\* RewardCalculator: the largest total_pool and the largest number of
\* workers in a contribution map
MaxPool == 1000
MaxContributors == 3
\* the auto-removal threshold of record_node_failure
max_failures == 5
\* no entry in node_registry.nodes, and what distinguishes the NodeMetadata
\* objects registered under one node_id (gpu_model)
NoMetadata == "none"
Metadata == {"gpu_a", "gpu_b"}
\* no entry in node_health
NoHealth == [known |-> FALSE, consecutive_failures |-> 0]
\* what get_node_profile reports to the batch controller: no profile, or the
\* profile's band and latency
NoNodeProfile == [known |-> FALSE, quality |-> "good", latency_ms |-> 0]
NodeProfiles == {NoNodeProfile,
                 [known |-> TRUE, quality |-> "poor", latency_ms |-> 400]}

VARIABLES
    \* GradientAggregator
    current_round, expected_nodes, received_gradients, round_start_time,
    rejected_gradients, gradient_history, min_nodes_percentage,
    \* wall clock (datetime.now / time.time), seconds
    now,
    \* DistributedTrainingLoop
    global_step,
    \* observation of the calls: value returned by the last call, the round
    \* the last delivered submission was produced for, whether should_aggregate
    \* has returned ready in the current round
    ret, sub_round, ready_returned,
    \* observation of run_training: the rounds it opened, in order, and the
    \* number of aggregate_round outcomes it obtained per round
    opened, outcomes,
    \* ModelManager: model and optimizer created, the parameters (one number),
    \* parameter_version, parameter_hash, and the value the last call returned
    model_ready, parameters, parameter_version, parameter_hash, mm_ret,
    \* ConnectionProfile of one monitored worker: whether the monitor holds the
    \* profile, the profile's fields, and whether the background loop runs
    monitoring_active, profile_registered, latency_history, packet_loss_events,
    total_messages_sent, total_messages_received,
    current_quality, previous_quality, quality_changes,
    last_successful_communication, pending_quality_change, pending_change_count,
    \* observation of the evaluations: the bands the classifier returned on the
    \* most recent evaluations, the number of evaluations of the pending streak
    \* that followed a recorded sample, and what the last monitor call did
    recent_evaluations, streak_samples, mon_ret,
    \* DynamicNodeSelector: strategy, node_states, node_contributions,
    \* quarantined_nodes, probation_progress; what the last call returned: the
    \* list "selected" of select_nodes, or nothing ("none", with an empty
    \* list); and the number of record_contribution calls made
    strategy, node_states, node_contributions, quarantined_nodes,
    probation_progress, selected, sel_ret, contributions_recorded,
    \* AdaptiveOrchestrator: adaptation_policy, phase, current_round (here
    \* orch_current_round), round_metrics (the average_loss of each record),
    \* last_adaptation_round, adaptations_applied, adaptations_rolled_back,
    \* configuration_history; what pre_round_adaptation returned for the
    \* round in progress; the index of the driver's loop over the rounds
    adaptation_policy, phase, orch_current_round, round_metrics,
    last_adaptation_round, adaptations_applied, adaptations_rolled_back,
    configuration_history, decisions, round_num,
    \* observation of the adaptations: the batch sizes the controller held
    \* when the last adaptation began
    pre_adaptation_batch_sizes,
    \* AdaptiveBatchController: node_batch_sizes, last_adaptation_time
    node_batch_sizes, last_adaptation_time,
    \* NodeRegistry: the status of each worker
    node_status,
    \* AdaptiveBatchController: strategy (here batch_strategy), the
    \* throughput of each record of node_performance[...]['throughput_history'],
    \* and what the last call of the controller at the current clock value
    \* was and returned
    batch_strategy, throughput_history, batch_ret,
    \* TrainingCoordinator: node_registry.nodes (of each entry, the metadata
    \* it holds), node_health (of each entry, consecutive_failures), and what
    \* the last call of the coordinator was and returned
    coord_registry, node_health, coord_ret,
    \* RewardCalculator: total_pool; the contributions handed to it (of each
    \* NodeContribution, final_score, quality_score and reliability_score);
    \* and what the last call was and returned
    total_pool, contributions, reward_ret,
    \* ContributionCalculator: the NodeContribution of one worker (whether
    \* self.contributions holds it, its counters, avg_gradient_norm as the
    \* fraction norm_num / norm_den, and its three scores)
    contribution,
    \* DataShardManager: shards (of each node, the shard it holds; a shard is
    \* named by its position in the list create_shards built), orphaned_shards,
    \* and the num_shards of the last create_shards call
    shards, orphaned_shards, num_shards,
    \* GradientAggregator under the weighted_average strategy:
    \* gradient_metadata (of each node, the metadata stored with its
    \* gradient), and the value aggregate_round returned for the one
    \* parameter, as the fraction num / den
    gradient_metadata, aggregated

aggVars == <<current_round, expected_nodes, received_gradients, round_start_time,
             rejected_gradients, gradient_history, min_nodes_percentage>>
obsVars == <<ret, sub_round, ready_returned>>
loopObsVars == <<opened, outcomes>>
mmVars == <<model_ready, parameters, parameter_version, parameter_hash, mm_ret>>
profileVars == <<profile_registered, latency_history, packet_loss_events,
                 total_messages_sent, total_messages_received,
                 current_quality, previous_quality, quality_changes,
                 last_successful_communication, pending_quality_change,
                 pending_change_count>>
monVars == <<monitoring_active, profileVars, recent_evaluations, streak_samples, mon_ret>>
selVars == <<strategy, node_states, node_contributions, quarantined_nodes,
             probation_progress, selected, sel_ret, contributions_recorded>>
orchVars == <<adaptation_policy, phase, orch_current_round, round_metrics,
              last_adaptation_round, adaptations_applied, adaptations_rolled_back,
              configuration_history, decisions, round_num,
              pre_adaptation_batch_sizes>>
batchVars == <<node_batch_sizes, last_adaptation_time>>
perfVars == <<batch_strategy, throughput_history, batch_ret>>
coordVars == <<coord_registry, node_health, coord_ret>>
rewardVars == <<total_pool, contributions, reward_ret>>
\* the variables of the components that are driven on their own
shardVars == <<shards, orphaned_shards, num_shards>>
weightVars == <<gradient_metadata, aggregated>>
separateVars == <<perfVars, coordVars, rewardVars, contribution, shardVars, weightVars>>
\* the variables of the orchestrator, the batch controller and the registry
adaptVars == <<orchVars, batchVars, node_status>>
\* the variables of the components other than the aggregator and the training loop
nonAggVars == <<mmVars, monVars, selVars, adaptVars, separateVars>>
\* the variables of the components other than the model manager
nonModelVars == <<aggVars, now, global_step, obsVars, loopObsVars, monVars, selVars,
                  adaptVars, separateVars>>
\* the variables of the components other than the network monitor
nonMonVars == <<aggVars, global_step, obsVars, loopObsVars, mmVars, selVars, adaptVars,
                separateVars>>
\* the variables of the components other than the node selector
nonSelVars == <<aggVars, global_step, obsVars, loopObsVars, mmVars, monVars, adaptVars,
                separateVars>>
\* the variables of the components the orchestrator does not call
nonAdaptVars == <<aggVars, global_step, obsVars, loopObsVars, mmVars, monVars,
                  separateVars>>
\* the variables of the aggregator, the loop, the model manager, the monitor,
\* the selector, the orchestrator and the registry
coreVars == <<aggVars, global_step, obsVars, loopObsVars, mmVars, monVars, selVars,
              orchVars, node_status>>
\* the variables of the components other than the batch controller
nonBatchVars == <<coreVars, coordVars, rewardVars, contribution, shardVars, weightVars>>
\* the variables of the components other than the coordinator
nonCoordVars == <<coreVars, now, batchVars, perfVars, rewardVars, contribution,
                  shardVars, weightVars>>
\* the variables of the components other than the reward calculator
nonRewardVars == <<coreVars, now, batchVars, perfVars, coordVars, contribution,
                   shardVars, weightVars>>
\* the variables of the components other than the contribution calculator
nonContributionVars == <<coreVars, now, batchVars, perfVars, coordVars, rewardVars,
                         shardVars, weightVars>>
\* the variables of the components other than the shard manager
nonShardVars == <<coreVars, now, batchVars, perfVars, coordVars, rewardVars,
                  contribution, weightVars>>
\* the variables of the components other than the aggregator with its
\* metadata, the clock and the observation of the aggregator's calls
nonWeightVars == <<global_step, loopObsVars, mmVars, monVars, selVars, adaptVars,
                   perfVars, coordVars, rewardVars, contribution, shardVars>>
vars == <<aggVars, now, global_step, obsVars, loopObsVars, mmVars, monVars, selVars,
          adaptVars, separateVars>>

(***************************************************************************)
(* GradientAggregator                                                      *)
(***************************************************************************)
\* __init__: the state after construction
AggInit(percentages) ==
    /\ current_round = 0
    /\ expected_nodes = {}
    /\ received_gradients = [n \in Nodes |-> NoGrad]
    /\ round_start_time = NoTime
    /\ rejected_gradients = 0
    /\ gradient_history = <<>>
    /\ min_nodes_percentage \in percentages

ReceivedOf(rcv) == {n \in Nodes : rcv[n] # NoGrad}
Received == ReceivedOf(received_gradients)

\* start_round(round_number, expected_node_ids)
start_round(round_number, expected_node_ids) ==
    /\ current_round' = round_number
    /\ expected_nodes' = expected_node_ids
    /\ received_gradients' = [n \in Nodes |-> NoGrad]
    /\ round_start_time' = now

\* _validate_gradients: NaN / Inf are refused; nothing else is looked at
_validate_gradients(gradients) == gradients # NaN

\* receive_gradient without its "already received" check
ReceiveOutcome_NoDuplicateCheck(expected, rcv, node_id, gradients) ==
    IF node_id \notin expected THEN "rejected_unexpected"
    ELSE IF gradients = NaN THEN "rejected_invalid"
    ELSE "accepted"

\* the checks of receive_gradient(node_id, gradients), in the code's order,
\* against an expected list and a received map
ReceiveOutcome(expected, rcv, node_id, gradients) ==
    IF node_id \notin expected THEN "rejected_unexpected"
    ELSE IF rcv[node_id] # NoGrad THEN "rejected_duplicate"
    ELSE IF ~_validate_gradients(gradients) THEN "rejected_invalid"
    ELSE "accepted"

\* the received map after receive_gradient(node_id, gradients)
ReceiveStore(expected, rcv, node_id, gradients) ==
    IF ReceiveOutcome(expected, rcv, node_id, gradients) = "accepted"
    THEN [rcv EXCEPT ![node_id] = gradients]
    ELSE rcv

\* receive_gradient(node_id, gradients); for_round is the round the worker
\* computed the gradients for, which the call does not carry
receive_gradient(node_id, gradients, for_round) ==
    LET out == ReceiveOutcome(expected_nodes, received_gradients, node_id, gradients) IN
    /\ out # "accepted" => rejected_gradients < MaxRejected
    /\ received_gradients' = ReceiveStore(expected_nodes, received_gradients, node_id, gradients)
    /\ rejected_gradients' = IF out = "accepted" THEN rejected_gradients
                             ELSE rejected_gradients + 1
    /\ ret' = out
    /\ sub_round' = for_round
    /\ UNCHANGED <<current_round, expected_nodes, round_start_time, gradient_history,
                   min_nodes_percentage, now, global_step, ready_returned, loopObsVars,
                   nonAggVars>>

\* min_nodes = int(num_expected * self.min_nodes_percentage)
MinNodes(num_expected) == (num_expected * min_nodes_percentage) \div 100

\* the timeout test with a strict comparison
TimedOut_Strict(elapsed) == elapsed > TimeoutSeconds

\* elapsed >= self.timeout_seconds
TimedOut(elapsed) == elapsed >= TimeoutSeconds

\* should_aggregate(): the reason returned; IsReady tells the boolean
should_aggregate ==
    LET num_received == Cardinality(Received)
        num_expected == Cardinality(expected_nodes)
        elapsed == now - round_start_time
    IN  IF round_start_time = NoTime THEN "not_started"
        ELSE IF num_received = num_expected THEN "all_responded"
        ELSE IF num_received < MinNodes(num_expected)
             THEN IF TimedOut(elapsed) THEN "timeout_insufficient"
                  ELSE "waiting_more"
        ELSE IF TimedOut(elapsed) THEN "timeout_reached"
        ELSE "waiting"

IsReady(reason) == reason \in {"all_responded", "timeout_reached"}

ShouldAggregate ==
    /\ ret' = should_aggregate
    /\ ready_returned' = (ready_returned \/ IsReady(should_aggregate))
    /\ UNCHANGED <<aggVars, now, global_step, sub_round, loopObsVars, nonAggVars>>

\* _record_round_history: the history after one more entry
_record_round_history(history, round, rcv, expected) ==
    LET entry == [round |-> round,
                  num_nodes |-> Cardinality(ReceivedOf(rcv)),
                  expected_nodes |-> Cardinality(expected)]
        h == Append(history, entry)
    IN IF Len(h) > HistoryLimit THEN SubSeq(h, Len(h) - HistoryLimit + 1, Len(h)) ELSE h

\* aggregate_round(parameter_shapes): None when nothing was received; the
\* average of finite gradients is finite and passes _validate_aggregated_gradients
aggregate_round_result(rcv) == IF ReceivedOf(rcv) = {} THEN "agg_none" ELSE "aggregated"

(***************************************************************************)
(* Spec: the aggregator driven through its interface. Rounds are numbered  *)
(* by the training loop's global_step; submissions, polls of               *)
(* should_aggregate and the clock are free.                                *)
(***************************************************************************)
ObsInit ==
    /\ ret = "init"
    /\ sub_round = 0
    /\ ready_returned = FALSE
    /\ opened = <<>>
    /\ outcomes = [r \in 0..MaxRound |-> 0]

\* ModelManager.__init__
ModelInit ==
    /\ model_ready = FALSE
    /\ parameters = 0
    /\ parameter_version = 0
    /\ parameter_hash = NoHash
    /\ mm_ret = "init"

\* NetworkQualityMonitor.__init__: no profile yet; the profile variables hold
\* what ConnectionProfile.__init__ assigns
MonInit ==
    /\ monitoring_active = FALSE
    /\ profile_registered = FALSE
    /\ latency_history = <<>>
    /\ packet_loss_events = <<>>
    /\ total_messages_sent = 0
    /\ total_messages_received = 0
    /\ current_quality = "good"
    /\ previous_quality = "good"
    /\ quality_changes = 0
    /\ last_successful_communication = NoTime
    /\ pending_quality_change = NoPending
    /\ pending_change_count = 0
    /\ recent_evaluations = <<>>
    /\ streak_samples = 0
    /\ mon_ret = "init"

\* DynamicNodeSelector.__init__
SelInit(strategies) ==
    /\ strategy \in strategies
    /\ node_states = [n \in Nodes |-> "unregistered"]
    /\ node_contributions = [n \in Nodes |-> NoContributions]
    /\ quarantined_nodes = [n \in Nodes |-> NoTime]
    /\ probation_progress = [n \in Nodes |-> NoProgress]
    /\ selected = {}
    /\ sel_ret = "none"
    /\ contributions_recorded = 0

\* AdaptiveOrchestrator.__init__, AdaptiveBatchController.__init__ and
\* NodeRegistry()
OrchInit(policies) ==
    /\ adaptation_policy \in policies
    /\ phase = "initialization"
    /\ orch_current_round = 0
    /\ round_metrics = <<>>
    /\ last_adaptation_round = 0
    /\ adaptations_applied = 0
    /\ adaptations_rolled_back = 0
    /\ configuration_history = <<>>
    /\ decisions = NoDecisions
    /\ round_num = 0
    /\ pre_adaptation_batch_sizes = [n \in Nodes |-> NoBatch]
    /\ node_batch_sizes = [n \in Nodes |-> NoBatch]
    /\ last_adaptation_time = 0
    /\ node_status = [n \in Nodes |-> NoStatus]

\* what AdaptiveBatchController.__init__ assigns besides node_batch_sizes
\* and last_adaptation_time, the strategy being one of the given ones
PerfInit(batch_strategies) ==
    /\ batch_strategy \in batch_strategies
    /\ throughput_history = [n \in Nodes |-> <<>>]
    /\ batch_ret = NoBatchCall

\* the aggregator, the loop, the monitor, the selector and the orchestrator
\* after construction, the aggregator with one of the given
\* min_nodes_percentage values, the selector with one of the given
\* strategies, the orchestrator with one of the given policies
CoreInit(percentages, strategies, policies) ==
    /\ AggInit(percentages)
    /\ now = 0
    /\ global_step = 0
    /\ ObsInit
    /\ ModelInit
    /\ MonInit
    /\ SelInit(strategies)
    /\ OrchInit(policies)

\* TrainingCoordinator.__init__
CoordInit ==
    /\ coord_registry = [n \in Nodes |-> NoMetadata]
    /\ node_health = [n \in Nodes |-> NoHealth]
    /\ coord_ret = [op |-> "none"]

\* ContributionCalculator.__init__: self.contributions is empty; the fields
\* are the defaults of NodeContribution
ContributionInit ==
    contribution = [registered |-> FALSE, compute_time |-> 0,
                    gradients_accepted |-> 0, gradients_rejected |-> 0,
                    successful_rounds |-> 0, failed_rounds |-> 0,
                    norm_num |-> 0, norm_den |-> 1,
                    quality_score |-> 0, reliability_score |-> 0, final_score |-> 0]

\* RewardCalculator(session_id, total_pool) and the contributions of the
\* session, one of the given maps
RewardInit(pools, maps) ==
    /\ total_pool \in pools
    /\ contributions \in maps
    /\ reward_ret = [op |-> "none"]

\* DataShardManager.__init__: no shard exists yet
ShardInit ==
    /\ shards = [n \in Nodes |-> NoShard]
    /\ orphaned_shards = <<>>
    /\ num_shards = 0

\* GradientAggregator.__init__: gradient_metadata is empty, and nothing has
\* been aggregated
WeightInit ==
    /\ gradient_metadata = [n \in Nodes |-> NoGradientMetadata]
    /\ aggregated = NoAggregate

\* the components that are driven on their own, the batch controller with
\* one of the given strategies
SeparateInit(batch_strategies) ==
    /\ PerfInit(batch_strategies)
    /\ CoordInit
    /\ RewardInit({MaxPool}, {<<>>})
    /\ ContributionInit
    /\ ShardInit
    /\ WeightInit

\* all components after construction, the batch controller with its
\* default strategy
InitAll(percentages, strategies, policies) ==
    /\ CoreInit(percentages, strategies, policies)
    /\ SeparateInit({DefaultBatchStrategy})

InitWith(percentages, strategies) == InitAll(percentages, strategies, {DefaultPolicy})

Init == InitWith(MinNodesPercentages, {DefaultStrategy})

\* a step counter that is never advanced
NextGlobalStep_Stuck == global_step

\* self.global_step += 1
NextGlobalStep == global_step + 1

StartRound ==
    /\ global_step < MaxRound
    /\ \E expected \in (SUBSET Nodes) \ {{}} :
         /\ global_step' = NextGlobalStep
         /\ start_round(NextGlobalStep, expected)
    /\ ret' = "started"
    /\ ready_returned' = FALSE
    /\ UNCHANGED <<rejected_gradients, gradient_history, min_nodes_percentage,
                   now, sub_round, loopObsVars, nonAggVars>>

ReceiveGradient ==
    \E node_id \in Nodes, gradients \in Submissions, for_round \in 1..MaxRound :
        /\ 1 <= current_round
        /\ for_round <= current_round
        /\ receive_gradient(node_id, gradients, for_round)

Tick ==
    /\ now + TickStep <= MaxTime
    /\ now' = now + TickStep
    /\ UNCHANGED <<aggVars, global_step, obsVars, loopObsVars, nonAggVars>>

Next ==
    \/ StartRound
    \/ ReceiveGradient
    \/ ShouldAggregate
    \/ Tick

Spec == Init /\ [][Next]_vars

(***************************************************************************)
(* TrainSpec: DistributedTrainingLoop.run_training, one action per step of *)
(* the inner loop.                                                         *)
(***************************************************************************)
\* the received map after receive_gradient(node_ids[i], all_gradients[i]) for
\* i = from .. Len(all_gradients)
RECURSIVE ReceiveAll(_, _, _, _)
ReceiveAll(expected, rcv, all_gradients, from) ==
    IF from > Len(all_gradients) THEN rcv
    ELSE ReceiveAll(expected,
                    ReceiveStore(expected, rcv, node_ids[from], all_gradients[from]),
                    all_gradients, from + 1)

\* the number of those calls that were rejected
RECURSIVE RejectedAll(_, _, _, _)
RejectedAll(expected, rcv, all_gradients, from) ==
    IF from > Len(all_gradients) THEN 0
    ELSE (IF ReceiveOutcome(expected, rcv, node_ids[from], all_gradients[from]) = "accepted"
          THEN 0 ELSE 1)
         + RejectedAll(expected,
                       ReceiveStore(expected, rcv, node_ids[from], all_gradients[from]),
                       all_gradients, from + 1)

\* the nodes of S in the order of node_ids
RECURSIVE InOrder(_, _)
InOrder(S, from) ==
    IF from > NumNodes THEN <<>>
    ELSE (IF node_ids[from] \in S THEN <<node_ids[from]>> ELSE <<>>) \o InOrder(S, from + 1)

\* node_ids[:k]
Prefix(k) == {node_ids[i] : i \in 1..k}

\* one pass of the inner loop of run_training: succeeded are the workers
\* whose simulated communication succeeded, grads the gradients their batches
\* produce
run_training_step(succeeded, grads) ==
    /\ global_step < MaxRound
    /\   LET producers == InOrder(succeeded, 1)
             all_gradients == [i \in 1..Len(producers) |-> grads[producers[i]]]
             expected == Prefix(Len(all_gradients))
             empty == [n \in Nodes |-> NoGrad]
             rcv == ReceiveAll(expected, empty, all_gradients, 1)
             result == aggregate_round_result(rcv)
         IN  /\ global_step' = NextGlobalStep
             /\ IF all_gradients = <<>>
                THEN /\ ret' = "skipped"
                     /\ UNCHANGED <<aggVars, loopObsVars>>
                ELSE /\ current_round' = NextGlobalStep
                     /\ expected_nodes' = expected
                     /\ round_start_time' = now
                     /\ received_gradients' = rcv
                     /\ rejected_gradients' = rejected_gradients
                            + RejectedAll(expected, empty, all_gradients, 1)
                     /\ gradient_history' =
                            IF result = "aggregated"
                            THEN _record_round_history(gradient_history, NextGlobalStep,
                                                       rcv, expected)
                            ELSE gradient_history
                     /\ ret' = result
                     /\ opened' = Append(opened, [round |-> NextGlobalStep,
                                                  expected |-> expected])
                     /\ outcomes' = [outcomes EXCEPT ![NextGlobalStep] = @ + 1]
                     /\ UNCHANGED min_nodes_percentage
    /\ UNCHANGED <<now, sub_round, ready_returned, nonAggVars>>

TrainStep ==
    \E succeeded \in SUBSET Nodes : \E grads \in [succeeded -> Submissions] :
        run_training_step(succeeded, grads)

TrainTick == Tick

TrainNext ==
    \/ TrainStep
    \/ TrainTick

TrainSpec == Init /\ [][TrainNext]_vars

(***************************************************************************)
(* Claims about the gradient aggregator and the training loop              *)
(***************************************************************************)
\* ceil(num_expected * min_nodes_percentage)
CeilMinNodes(num_expected) == (num_expected * min_nodes_percentage + 99) \div 100
Elapsed == now - round_start_time
Rejections == {"rejected_unexpected", "rejected_duplicate", "rejected_invalid"}

\* C1: between one start_round and the next, a worker whose gradient is stored
\* keeps exactly that gradient, and every further receive_gradient call for it
\* is rejected.
C1_AtMostOneAcceptPerRound ==
    [][global_step' = global_step =>
        \A w \in Nodes :
            received_gradients[w] # NoGrad =>
                /\ received_gradients'[w] = received_gradients[w]
                /\ \A g \in Submissions, r \in 1..MaxRound :
                       receive_gradient(w, g, r) => ret' \in Rejections]_vars

\* C1 witness: a duplicate submission has just been rejected while the first
\* one is stored
C1_Witness ==
    /\ ret = "rejected_duplicate"
    /\ Received # {}

\* C3: while fewer than ceil(|expected| * min_nodes_percentage) gradients are
\* accepted, should_aggregate reports not ready, and after the timeout its
\* reason is "timeout with insufficient nodes".
C3_BelowCeilNotReady ==
    [][(/\ ShouldAggregate
        /\ round_start_time # NoTime
        /\ Cardinality(Received) < CeilMinNodes(Cardinality(expected_nodes)))
       => /\ ~IsReady(ret')
          /\ Elapsed >= TimeoutSeconds => ret' = "timeout_insufficient"]_vars

\* C4: with exactly ceil(|expected| * min_nodes_percentage) gradients, but not
\* all, should_aggregate is not ready before the timeout and ready with the
\* partial set once elapsed >= timeout_seconds.
C4_ReadyAtDeadline ==
    [][(/\ ShouldAggregate
        /\ round_start_time # NoTime
        /\ Cardinality(Received) = CeilMinNodes(Cardinality(expected_nodes))
        /\ Cardinality(Received) < Cardinality(expected_nodes))
       => /\ Elapsed < TimeoutSeconds => ~IsReady(ret')
          /\ Elapsed >= TimeoutSeconds => ret' = "timeout_reached"]_vars

\* C4 witness: should_aggregate has just returned ready at the deadline with
\* exactly the threshold number of gradients, fewer than expected
C4_Witness ==
    /\ ret = "timeout_reached"
    /\ Elapsed = TimeoutSeconds
    /\ Cardinality(Received) = CeilMinNodes(Cardinality(expected_nodes))
    /\ Cardinality(Received) < Cardinality(expected_nodes)

\* C5: once should_aggregate has returned ready in the current round, no
\* later receive_gradient call of that round is accepted.
C5_LateGradientRejected == ready_returned => ret # "accepted"

\* C6: a submission produced for round r is accepted only while round r is
\* the aggregator's current round.
C6_StaleGradientDiscarded == ret = "accepted" => sub_round = current_round

C39_GradientsUnderProducer ==
    [][\A succeeded \in (SUBSET Nodes) \ {{}} : \A grads \in [succeeded -> Submissions] :
          run_training_step(succeeded, grads)
          => /\ expected_nodes' = succeeded
             /\ \A n \in Nodes :
                    received_gradients'[n] # NoGrad
                        => n \in succeeded /\ received_gradients'[n] = grads[n]]_vars

(***************************************************************************)
(* ModelManager. The parameter set is abstracted to one integer; a gradient *)
(* or parameter dict is a record telling whether it has every expected     *)
(* name with the expected shape, whether its values are finite, and its    *)
(* value.                                                                  *)
(***************************************************************************)
ParamValues == (0 - MaxParam)..MaxParam
Dicts == [shape_ok : BOOLEAN, finite : BOOLEAN, val : {0 - 1, 1}]
SavedStates == [dict : Dicts, version : 0..MaxVersion]

\* _compute_parameter_hash: a digest of the parameter content
_compute_parameter_hash(params) == params + MaxParam

\* validate_parameters(parameters, check_values)
validate_parameters(dict, check_values) ==
    /\ dict.shape_ok
    /\ check_values => dict.finite

\* a successful apply_gradients that leaves the version as it was
AppliedVersion_Unchanged(version) == version

\* self.parameter_version += 1
AppliedVersion(version) == version + 1

\* initialize_model()
InitializeModel ==
    /\ model_ready' = TRUE
    /\ parameters' = 0
    /\ parameter_version' = 0
    /\ parameter_hash' = _compute_parameter_hash(0)
    /\ mm_ret' = "initialized"
    /\ UNCHANGED nonModelVars

\* apply_gradients(gradients): the optimizer step moves the parameters
\* against the gradient
ApplyGradients ==
    \E gradients \in Dicts :
        /\ parameter_version < MaxVersion
        /\ parameters - gradients.val \in ParamValues
        /\ IF model_ready /\ validate_parameters(gradients, FALSE)
           THEN /\ parameters' = parameters - gradients.val
                /\ parameter_version' = AppliedVersion(parameter_version)
                /\ parameter_hash' = _compute_parameter_hash(parameters')
                /\ mm_ret' = "apply_ok"
           ELSE /\ mm_ret' = "apply_failed"
                /\ UNCHANGED <<parameters, parameter_version, parameter_hash>>
        /\ UNCHANGED <<model_ready, nonModelVars>>

\* set_parameters(parameters)
SetParameters ==
    \E dict \in Dicts :
        /\ parameter_version < MaxVersion
        /\ IF model_ready /\ validate_parameters(dict, TRUE)
           THEN /\ parameters' = dict.val
                /\ parameter_version' = parameter_version + 1
                /\ parameter_hash' = _compute_parameter_hash(dict.val)
                /\ mm_ret' = "set_ok"
           ELSE /\ mm_ret' = "set_failed"
                /\ UNCHANGED <<parameters, parameter_version, parameter_hash>>
        /\ UNCHANGED <<model_ready, nonModelVars>>

\* load_checkpoint(checkpoint_file): a missing file or another architecture
\* fails at once; otherwise the model is initialised when there is none, and
\* the saved state, version and hash are restored unless load_state_dict
\* raises on a shape mismatch
LoadCheckpoint ==
    \E readable \in BOOLEAN, checkpoint \in SavedStates :
        /\ IF ~readable
           THEN /\ mm_ret' = "load_failed"
                /\ UNCHANGED <<model_ready, parameters, parameter_version, parameter_hash>>
           ELSE IF ~checkpoint.dict.shape_ok
           THEN /\ mm_ret' = "load_failed"
                /\ model_ready' = TRUE
                /\ IF model_ready
                   THEN UNCHANGED <<parameters, parameter_version, parameter_hash>>
                   ELSE /\ parameters' = 0
                        /\ parameter_version' = 0
                        /\ parameter_hash' = _compute_parameter_hash(0)
           ELSE /\ mm_ret' = "checkpoint_loaded"
                /\ model_ready' = TRUE
                /\ parameters' = checkpoint.dict.val
                /\ parameter_version' = checkpoint.version
                /\ parameter_hash' = _compute_parameter_hash(checkpoint.dict.val)
        /\ UNCHANGED nonModelVars

\* deserialize_parameters(serialized_data): set_parameters on the serialized
\* parameters, then the version and hash of the serialized state
DeserializeParameters ==
    \E data \in SavedStates :
        /\ IF model_ready /\ validate_parameters(data.dict, TRUE)
           THEN /\ parameters' = data.dict.val
                /\ parameter_version' = data.version
                /\ parameter_hash' = _compute_parameter_hash(data.dict.val)
                /\ mm_ret' = "deserialized"
           ELSE /\ mm_ret' = "deserialize_failed"
                /\ UNCHANGED <<parameters, parameter_version, parameter_hash>>
        /\ UNCHANGED <<model_ready, nonModelVars>>

ModelNext ==
    \/ InitializeModel
    \/ ApplyGradients
    \/ SetParameters
    \/ LoadCheckpoint
    \/ DeserializeParameters

ModelSpec == Init /\ [][ModelNext]_vars

\* the calls that start or restore a session: they set the version outright
SessionStarts == {"initialized", "checkpoint_loaded", "deserialized"}

DequeAppend(q, x) ==
    LET a == Append(q, x) IN IF Len(a) > history_size THEN Tail(a) ELSE a

RECURSIVE SumSeq(_)
SumSeq(q) == IF q = <<>> THEN 0 ELSE Head(q) + SumSeq(Tail(q))

\* the number of True entries of packet_loss_events
LossCount(events) == Cardinality({i \in 1..Len(events) : events[i]})

Max(a, b) == IF a >= b THEN a ELSE b
Min(a, b) == IF a <= b THEN a ELSE b

\* get_reliability_score(), as the fraction ReliabilityNum / ReliabilityDen
ReliabilityNum(sent, received) == IF sent = 0 THEN 1 ELSE received
ReliabilityDen(sent) == IF sent = 0 THEN 1 ELSE sent

\* the denominator the score is kept over
ScoreDen(lat, sent) ==
    IF Len(lat) < 3 THEN 1 ELSE 1000 * Len(lat) * ReliabilityDen(sent)

\* calculate_quality_score(), times ScoreDen
calculate_quality_score(lat, loss, sent, received) ==
    IF Len(lat) < 3 THEN 50
    ELSE LET n == Len(lat)
             total_latency == SumSeq(lat)
             \* latency_score * 1000 * n
             latency_score ==
                 IF total_latency < 50 * n THEN 40000 * n
                 ELSE IF total_latency < 150 * n
                      THEN 40000 * n - 300 * (total_latency - 50 * n)
                 ELSE IF total_latency < 300 * n
                      THEN 10000 * n - 67 * (total_latency - 150 * n)
                 ELSE 0
             \* packet_loss_score * 1000 * n
             packet_loss_score == 30000 * Max(0, n - 10 * LossCount(loss))
             total_score ==
                 ReliabilityDen(sent) * (latency_score + packet_loss_score)
                 + 30000 * n * ReliabilityNum(sent, received)
         IN  Max(0, Min(100 * ScoreDen(lat, sent), total_score))

\* the band of a score num / den
BandOf(num, den) ==
    IF num >= 80 * den THEN "excellent"
    ELSE IF num >= 60 * den THEN "good"
    ELSE IF num >= 40 * den THEN "fair"
    ELSE IF num >= 20 * den THEN "poor"
    ELSE "critical"

\* new_quality of update_quality_classification for a profile with the given
\* histories, counters and last successful communication
NewQuality(lat, loss, sent, received, last_success) ==
    IF now - last_success > OfflineGraceSeconds THEN "offline"
    ELSE BandOf(calculate_quality_score(lat, loss, sent, received), ScoreDen(lat, sent))

\* a streak that is continued whatever band is returned
PendingCount_NoReset(new_quality) == pending_change_count + 1

\* pending_change_count after an evaluation that returned new_quality,
\* different from the current band
PendingCount(new_quality) ==
    IF new_quality = pending_quality_change THEN pending_change_count + 1 ELSE 1

\* the last quality_change_threshold entries of a sequence
LastEvaluations(q) ==
    IF Len(q) > quality_change_threshold
    THEN SubSeq(q, Len(q) - quality_change_threshold + 1, Len(q))
    ELSE q

\* update_quality_classification(), new_quality being the band it computed;
\* by_sample tells that record_communication made the call
update_quality_classification(new_quality, by_sample) ==
    /\ recent_evaluations' = LastEvaluations(Append(recent_evaluations, new_quality))
    /\ IF new_quality = current_quality
       THEN /\ pending_quality_change' = NoPending
            /\ pending_change_count' = 0
            /\ streak_samples' = 0
            /\ mon_ret' = "unchanged"
            /\ UNCHANGED <<current_quality, previous_quality, quality_changes>>
       ELSE /\ streak_samples' =
                   (IF new_quality = pending_quality_change THEN streak_samples ELSE 0)
                   + (IF by_sample THEN 1 ELSE 0)
            /\ IF PendingCount(new_quality) >= quality_change_threshold
               THEN /\ previous_quality' = current_quality
                    /\ current_quality' = new_quality
                    /\ quality_changes' = quality_changes + 1
                    /\ pending_quality_change' = NoPending
                    /\ pending_change_count' = 0
                    /\ mon_ret' = "changed"
               ELSE /\ pending_quality_change' = new_quality
                    /\ pending_change_count' = PendingCount(new_quality)
                    /\ mon_ret' = "pending"
                    /\ UNCHANGED <<current_quality, previous_quality, quality_changes>>

\* NetworkQualityMonitor.register_node(node_id)
RegisterProfile ==
    /\ ~profile_registered
    /\ profile_registered' = TRUE
    /\ last_successful_communication' = now
    /\ mon_ret' = "registered"
    /\ UNCHANGED <<monitoring_active, latency_history, packet_loss_events,
                   total_messages_sent, total_messages_received, current_quality,
                   previous_quality, quality_changes, pending_quality_change,
                   pending_change_count, recent_evaluations, streak_samples,
                   now, nonMonVars>>

\* NetworkQualityMonitor.record_communication(node_id, latency_ms, success):
\* registers the worker when it has no profile, records the sample and
\* re-classifies
record_communication(sample) ==
        LET lat == DequeAppend(latency_history, sample.latency_ms)
            loss == DequeAppend(packet_loss_events, ~sample.success)
            sent == total_messages_sent + 1
            received == total_messages_received + (IF sample.success THEN 1 ELSE 0)
            last_success == IF sample.success \/ ~profile_registered THEN now
                            ELSE last_successful_communication
        IN  /\ profile_registered' = TRUE
            /\ latency_history' = lat
            /\ packet_loss_events' = loss
            /\ total_messages_sent' = sent
            /\ total_messages_received' = received
            /\ last_successful_communication' = last_success
            /\ update_quality_classification(
                   NewQuality(lat, loss, sent, received, last_success), TRUE)
            /\ UNCHANGED <<monitoring_active, now, nonMonVars>>

RecordCommunication ==
    \E sample \in Samples :
        /\ total_messages_sent < MaxSamples
        /\ record_communication(sample)

\* start_monitoring()
StartMonitoring ==
    /\ ~monitoring_active
    /\ monitoring_active' = TRUE
    /\ mon_ret' = "monitoring_started"
    /\ UNCHANGED <<profileVars, recent_evaluations, streak_samples, now, nonMonVars>>

\* stop_monitoring()
StopMonitoring ==
    /\ monitoring_active
    /\ monitoring_active' = FALSE
    /\ mon_ret' = "monitoring_stopped"
    /\ UNCHANGED <<profileVars, recent_evaluations, streak_samples, now, nonMonVars>>

\* one pass of _monitoring_loop: every profile is re-classified under the lock
MonitoringLoop ==
    /\ monitoring_active
    /\ profile_registered
    /\ update_quality_classification(
           NewQuality(latency_history, packet_loss_events, total_messages_sent,
                      total_messages_received, last_successful_communication), FALSE)
    /\ UNCHANGED <<monitoring_active, profile_registered, latency_history,
                   packet_loss_events, total_messages_sent, total_messages_received,
                   last_successful_communication, now, nonMonVars>>

MonTick ==
    /\ now + MonTickStep <= MaxMonitorTime
    /\ now' = now + MonTickStep
    /\ UNCHANGED <<monVars, nonMonVars>>

MonitorNext ==
    \/ RegisterProfile
    \/ RecordCommunication
    \/ StartMonitoring
    \/ StopMonitoring
    \/ MonitoringLoop
    \/ MonTick

MonitorInit == InitWith({DefaultMinNodesPct}, {DefaultStrategy})

MonitorSpec == MonitorInit /\ [][MonitorNext]_vars

\* C9: the band changes only at an evaluation at which the classifier has
\* returned the new band on each of the last quality_change_threshold
\* consecutive evaluations, and the band it leaves becomes previous_quality.
C9_BandChangeNeedsStreak ==
    [][current_quality' # current_quality =>
        /\ Len(recent_evaluations') = quality_change_threshold
        /\ \A i \in 1..Len(recent_evaluations') :
               recent_evaluations'[i] = current_quality'
        /\ previous_quality' = current_quality]_vars

\* C9 witness: the band has just moved to a non-offline band at the third of
\* three consecutive recorded samples classified into that band
C9_Witness ==
    /\ mon_ret = "changed"
    /\ current_quality # "offline"
    /\ streak_samples = quality_change_threshold
    /\ \A i \in 1..Len(recent_evaluations) : recent_evaluations[i] = current_quality

\* C10: a change to a non-offline band never rests on a streak that holds
\* exactly one recorded sample, the remaining evaluations of the streak being
\* passes of the background loop.
C10_NoFlipOnSingleSample ==
    [][(current_quality' # current_quality /\ current_quality' # "offline")
        => streak_samples' # 1]_vars

\* C11: an evaluation made while no communication has succeeded for more
\* than the grace period leaves the worker in band offline.
C11_OfflineAfterGrace ==
    [][((RecordCommunication \/ MonitoringLoop)
        /\ now - last_successful_communication' > OfflineGraceSeconds)
       => current_quality' = "offline"]_vars

(***************************************************************************)
(* DynamicNodeSelector. The selection counters and the selection history,  *)
(* which no decision reads, are left out; max_selected_nodes is None.      *)
(***************************************************************************)
\* the keys of node_states
KnownNodes(states) == {n \in Nodes : states[n] # "unregistered"}

\* register_node(node_id) on the selector
register_node(node_id) ==
    /\ node_states' = [node_states EXCEPT ![node_id] = "active"]
    /\ node_contributions' = [node_contributions EXCEPT ![node_id] = ZeroContributions]
    /\ sel_ret' = "none"
    /\ selected' = {}
    /\ UNCHANGED <<strategy, quarantined_nodes, probation_progress,
                   contributions_recorded>>

RegisterNode ==
    \E node_id \in Nodes :
        /\ register_node(node_id)
        /\ UNCHANGED <<now, nonSelVars>>

\* the quarantine test of record_contribution on the updated counters:
\* total_recent >= quarantine_threshold and failure_rate > 0.7
ShouldQuarantine(contrib) ==
    LET total_recent == contrib.successful_contributions + contrib.failed_contributions
    IN  /\ total_recent >= quarantine_threshold
        /\ 10 * contrib.failed_contributions > 7 * total_recent

\* record_contribution(node_id, compute_time, waiting_time, success)
record_contribution(node_id, times, success) ==
        LET known == node_contributions[node_id].registered
            states == IF known THEN node_states
                      ELSE [node_states EXCEPT ![node_id] = "active"]
            base == IF known THEN node_contributions[node_id] ELSE ZeroContributions
            contrib == [base EXCEPT
                          !.compute_time = @ + times.compute_time,
                          !.waiting_time = @ + times.waiting_time,
                          !.successful_contributions = @ + (IF success THEN 1 ELSE 0),
                          !.failed_contributions = @ + (IF success THEN 0 ELSE 1)]
            progress == probation_progress[node_id] + 1
        IN  /\ contributions_recorded' = contributions_recorded + 1
            /\ node_contributions' = [node_contributions EXCEPT ![node_id] = contrib]
            /\ IF success
               THEN /\ UNCHANGED quarantined_nodes
                    /\ IF probation_progress[node_id] = NoProgress
                       THEN /\ node_states' = states
                            /\ UNCHANGED probation_progress
                       ELSE IF progress >= probation_steps
                       THEN /\ node_states' = [states EXCEPT ![node_id] = "active"]
                            /\ probation_progress' =
                                   [probation_progress EXCEPT ![node_id] = NoProgress]
                       ELSE /\ node_states' = states
                            /\ probation_progress' =
                                   [probation_progress EXCEPT ![node_id] = progress]
               ELSE /\ UNCHANGED probation_progress
                    /\ IF ShouldQuarantine(contrib)
                       THEN \* _quarantine_node(node_id)
                            /\ quarantined_nodes' = [quarantined_nodes EXCEPT
                                                       ![node_id] = now + quarantine_duration]
                            /\ node_states' = [states EXCEPT ![node_id] = "quarantined"]
                       ELSE /\ node_states' = states
                            /\ UNCHANGED quarantined_nodes
            /\ sel_ret' = "none"
            /\ selected' = {}
            /\ UNCHANGED <<strategy, now, nonSelVars>>

RecordContribution ==
    \E node_id \in Nodes, times \in ContributionTimes, success \in BOOLEAN :
        /\ contributions_recorded < MaxContributions
        /\ record_contribution(node_id, times, success)

\* node_scores.get(node_id, 50.0) >= threshold, node_scores being what
\* register_node (50.0) or _calculate_contribution_score last stored
ContributionScoreAtLeast(contrib, threshold) ==
    LET total_time == contrib.compute_time + contrib.waiting_time
        total_attempts == contrib.successful_contributions + contrib.failed_contributions
    IN  IF total_attempts = 0 THEN 50 >= threshold
        ELSE IF total_time > 0
        THEN 50 * contrib.compute_time * total_attempts
             + 50 * contrib.successful_contributions * total_time
             >= threshold * total_time * total_attempts
        ELSE 50 * contrib.successful_contributions >= threshold * total_attempts

\* the workers _check_quarantine_expiry releases
Released == {n \in Nodes : quarantined_nodes[n] # NoTime /\ now >= quarantined_nodes[n]}

\* _select_all
_select_all(available_nodes) == available_nodes

\* _select_by_quality_threshold
_select_by_quality_threshold(available_nodes, quality) ==
    {n \in available_nodes : quality[n] = NoProfile \/ quality[n] >= min_quality_score}

\* _select_top_n: n = self.max_selected_nodes or len(available_nodes)
_select_top_n(available_nodes) == available_nodes

RECURSIVE SumOver(_, _)
SumOver(f, S) ==
    IF S = {} THEN 0
    ELSE LET n == CHOOSE x \in S : TRUE IN f[n] + SumOver(f, S \ {n})

\* _select_adaptive_threshold: with k profiles of sum s, a score q is at
\* least max(min_quality_score, mean - 0.5 * std) when q >= min_quality_score
\* and either q >= mean or 4 * k * (s - k*q)^2 <= sum of (k*q_i - s)^2
_select_adaptive_threshold(available_nodes, quality) ==
    LET profiled == {n \in available_nodes : quality[n] # NoProfile}
        k == Cardinality(profiled)
        s == SumOver(quality, profiled)
        spread == SumOver([n \in Nodes |-> (k * quality[n] - s) * (k * quality[n] - s)],
                          profiled)
        AboveAdaptive(q) ==
            /\ q >= min_quality_score
            /\ \/ k * q >= s
               \/ 4 * k * (s - k * q) * (s - k * q) <= spread
    IN  IF profiled = {} THEN available_nodes
        ELSE {n \in available_nodes : quality[n] = NoProfile \/ AboveAdaptive(quality[n])}

\* _select_by_contribution
_select_by_contribution(available_nodes) ==
    {n \in available_nodes : ContributionScoreAtLeast(node_contributions[n], 30)}

\* the quality scores a selection can read: only two strategies read them
QualityReports ==
    IF strategy \in {"quality_threshold", "adaptive_threshold"}
    THEN [Nodes -> QualityScores]
    ELSE {[n \in Nodes |-> NoProfile]}

\* select_nodes(available_nodes) on the selector; use_all stands for
\* available_nodes = None, quality for the scores the network monitor reports
select_nodes(use_all, listed, quality) ==
        LET states == [n \in Nodes |-> IF n \in Released THEN "probation" ELSE node_states[n]]
            candidates == IF use_all THEN KnownNodes(states) ELSE listed
            available_nodes == {n \in candidates : states[n] # "quarantined"}
        IN  /\ node_states' = states
            /\ quarantined_nodes' = [n \in Nodes |-> IF n \in Released THEN NoTime
                                                     ELSE quarantined_nodes[n]]
            /\ probation_progress' = [n \in Nodes |-> IF n \in Released THEN 0
                                                      ELSE probation_progress[n]]
            /\ selected' =
                   IF available_nodes = {} THEN {}
                   ELSE IF strategy = "all_available" THEN _select_all(available_nodes)
                   ELSE IF strategy = "quality_threshold"
                        THEN _select_by_quality_threshold(available_nodes, quality)
                   ELSE IF strategy = "top_n" THEN _select_top_n(available_nodes)
                   ELSE IF strategy = "adaptive_threshold"
                        THEN _select_adaptive_threshold(available_nodes, quality)
                   ELSE _select_by_contribution(available_nodes)
            /\ sel_ret' = "selected"
            /\ UNCHANGED <<strategy, node_contributions, contributions_recorded>>

SelectNodes ==
    \E use_all \in BOOLEAN, listed \in SUBSET Nodes, quality \in QualityReports :
        /\ use_all => listed = {}
        /\ select_nodes(use_all, listed, quality)
        /\ UNCHANGED <<now, nonSelVars>>

\* force_include_node(node_id) for every node_id of included, on the selector
force_include_nodes(included) ==
    /\ quarantined_nodes' = [n \in Nodes |-> IF n \in included THEN NoTime
                                             ELSE quarantined_nodes[n]]
    /\ probation_progress' = [n \in Nodes |-> IF n \in included THEN NoProgress
                                              ELSE probation_progress[n]]
    /\ node_states' = [n \in Nodes |-> IF n \in included THEN "active"
                                       ELSE node_states[n]]
    /\ sel_ret' = "none"
    /\ selected' = {}
    /\ UNCHANGED <<strategy, node_contributions, contributions_recorded>>

\* force_include_node(node_id)
ForceIncludeNode ==
    \E node_id \in Nodes :
        /\ force_include_nodes({node_id})
        /\ UNCHANGED <<now, nonSelVars>>

\* force_exclude_node(node_id)
ForceExcludeNode ==
    \E node_id \in Nodes :
        /\ node_states' = [node_states EXCEPT ![node_id] = "excluded"]
        /\ sel_ret' = "none"
        /\ selected' = {}
        /\ UNCHANGED <<strategy, node_contributions, quarantined_nodes,
                       probation_progress, contributions_recorded,
                       now, nonSelVars>>

SelTick ==
    /\ now + SelTickStep <= MaxSelectorTime
    /\ now' = now + SelTickStep
    /\ UNCHANGED <<selVars, nonSelVars>>

SelectorNext ==
    \/ RegisterNode
    \/ RecordContribution
    \/ SelectNodes
    \/ ForceIncludeNode
    \/ ForceExcludeNode
    \/ SelTick

SelectorInit == InitWith({DefaultMinNodesPct}, Strategies)

SelectorSpec == SelectorInit /\ [][SelectorNext]_vars

\* C2: the list select_nodes has just returned holds no worker whose
\* quarantine expiry lies in the future.
C2_QuarantinedNeverSelected ==
    sel_ret = "selected" => \A w \in selected : ~(quarantined_nodes[w] > now)

\* C12: a record_contribution call for a worker that is not quarantined
\* leaves it quarantined exactly when, with the call counted, the worker has
\* at least quarantine_threshold contributions and more than 0.7 of them
\* failed.
C12_QuarantineIffFailureRatio ==
    [][\A w \in Nodes :
          (/\ contributions_recorded' # contributions_recorded
           /\ node_contributions'[w] # node_contributions[w]
           /\ node_states[w] # "quarantined")
          => (node_states'[w] = "quarantined"
                <=> ShouldQuarantine(node_contributions'[w]))]_vars

\* C13: a quarantined worker whose expiry lies in the future is still
\* quarantined after any call other than the administrative overrides.
C13_QuarantineHeldForDuration ==
    [][\A w \in Nodes :
          (/\ node_states[w] = "quarantined"
           /\ quarantined_nodes[w] > now
           /\ ~ForceIncludeNode
           /\ ~ForceExcludeNode)
          => node_states'[w] = "quarantined"]_vars

\* C15: the list select_nodes has just returned holds no worker whose state
\* is excluded, the state force_exclude_node gives and only force_include_node,
\* register_node or a quarantine replaces.
C15_ExcludedNeverSelected ==
    sel_ret = "selected" => \A w \in selected : node_states[w] # "excluded"

\* C36: for every worker the selector's records agree: quarantined_nodes
\* holds an expiry for it exactly when its state is quarantined, and
\* probation_progress holds a counter for it exactly when its state is
\* probation.
C36_SelectorRecordsAgree ==
    \A w \in Nodes :
        /\ quarantined_nodes[w] # NoTime <=> node_states[w] = "quarantined"
        /\ probation_progress[w] # NoProgress <=> node_states[w] = "probation"

(***************************************************************************)
(* WorkerSpec: the selector with its default strategy and one worker,      *)
(* node_ids[1], recording contributions between selections.                *)
(***************************************************************************)
WorkerContribution ==
    \E times \in ContributionTimes, success \in BOOLEAN :
        /\ contributions_recorded < MaxWorkerContributions
        /\ record_contribution(node_ids[1], times, success)

WorkerNext ==
    \/ WorkerContribution
    \/ SelectNodes
    \/ SelTick

WorkerInit == InitWith({DefaultMinNodesPct}, {DefaultStrategy})

WorkerSpec == WorkerInit /\ [][WorkerNext]_vars

\* C14: a failed contribution of a worker that is and stays in probation
\* restarts its count of consecutive successes, and a worker leaves probation
\* for active through a contribution only when that contribution completes
\* probation_steps successes.
C14_ProbationNeedsConsecutiveSuccesses ==
    [][\A w \in Nodes :
          (/\ contributions_recorded' # contributions_recorded
           /\ node_states[w] = "probation")
          => /\ (/\ node_contributions'[w].failed_contributions
                        > node_contributions[w].failed_contributions
                 /\ node_states'[w] = "probation")
                => probation_progress'[w] = 0
             /\ node_states'[w] = "active"
                => probation_progress[w] + 1 >= probation_steps]_vars


(***************************************************************************)
(* AdaptiveBatchController; use_power_of_two is True, the constructor's    *)
(* default.                                                                *)
(***************************************************************************)
\* 2 ** int(log2(b)), the largest power of two not above b
RECURSIVE FloorPowerOfTwo(_)
FloorPowerOfTwo(b) == IF b < 2 THEN 1 ELSE 2 * FloorPowerOfTwo(b \div 2)

\* a limit that lets every size through
Clamp_None(b) == b

\* max(self.min_batch_size, min(self.max_batch_size, batch_size))
Clamp(b) == Max(min_batch_size, Min(max_batch_size, b))

\* _constrain_batch_size
_constrain_batch_size(batch_size) ==
    LET clamped == Clamp(batch_size)
        lower == FloorPowerOfTwo(clamped)
        upper == 2 * lower
    IN  Clamp(IF clamped - lower < upper - clamped THEN lower ELSE upper)

\* quality_multipliers, in hundredths
QualityMultiplier(quality) ==
    CASE quality = "excellent" -> 75
      [] quality = "good" -> 100
      [] quality = "fair" -> 150
      [] quality = "poor" -> 200
      [] quality = "critical" -> 250
      [] OTHER -> 100

\* the factor for the absolute latency, in tenths
LatencyMultiplier(latency_ms) ==
    IF latency_ms < 50 THEN 8 ELSE IF latency_ms > 200 THEN 15 ELSE 10

\* _latency_based_batch_size
_latency_based_batch_size(profile) ==
    IF ~profile.known THEN baseline_batch_size
    ELSE _constrain_batch_size(
             (baseline_batch_size * QualityMultiplier(profile.quality)
                                  * LatencyMultiplier(profile.latency_ms)) \div 1000)

\* the sum of the throughputs of a list of records
RECURSIVE SumOf(_)
SumOf(q) == IF q = <<>> THEN 0 ELSE Head(q) + SumOf(Tail(q))

\* q[-k:]
LastK(q, k) == SubSeq(q, Max(1, Len(q) - k + 1), Len(q))

\* q[-6:-3]
OlderThree(q) == SubSeq(q, Max(1, Len(q) - 5), Len(q) - 3)

\* _throughput_based_batch_size: the baseline with fewer than five records
\* among the last ten; otherwise the mean throughput of the last three
\* records against that of the three before them (means of three records
\* each, compared through their sums), from the current batch size
_throughput_based_batch_size(history, current_batch_size) ==
    LET recent_throughputs == LastK(history, 10)
        current_throughput == SumOf(LastK(recent_throughputs, 3))
        older_throughput == IF Len(recent_throughputs) >= 6
                            THEN SumOf(OlderThree(recent_throughputs))
                            ELSE current_throughput
    IN  IF Len(history) < 3 \/ Len(recent_throughputs) < 5 THEN baseline_batch_size
        ELSE _constrain_batch_size(
                 IF 100 * current_throughput > 105 * older_throughput
                 THEN (current_batch_size * 125) \div 100
                 ELSE IF 100 * current_throughput < 95 * older_throughput
                      THEN (current_batch_size * 8) \div 10
                      ELSE current_batch_size)

\* _hybrid_batch_size: int(0.6 * latency_batch + 0.4 * throughput_batch)
_hybrid_batch_size(profile, history, current_batch_size) ==
    _constrain_batch_size(
        (6 * _latency_based_batch_size(profile)
           + 4 * _throughput_based_batch_size(history, current_batch_size)) \div 10)

\* _calculate_optimal_batch_size
_calculate_optimal_batch_size(profile, history, current_batch_size) ==
    CASE batch_strategy = "fixed" -> baseline_batch_size
      [] batch_strategy = "latency_based" -> _latency_based_batch_size(profile)
      [] batch_strategy = "throughput_based"
             -> _throughput_based_batch_size(history, current_batch_size)
      [] batch_strategy = "hybrid"
             -> _hybrid_batch_size(profile, history, current_batch_size)
      [] OTHER -> baseline_batch_size

\* get_batch_size(node_id)
get_batch_size(sizes, node_id) ==
    IF sizes[node_id] = NoBatch THEN baseline_batch_size ELSE sizes[node_id]

\* the batch controller's register_node(node_id), called for a worker none
\* of whose performance has been recorded
batch_register_node(node_id) ==
    /\ node_batch_sizes' = [node_batch_sizes EXCEPT
                              ![node_id] = _constrain_batch_size(baseline_batch_size)]
    /\ UNCHANGED last_adaptation_time

\* a time gate that is always open
AdaptationDue_Always == TRUE

\* whether evaluate_and_adapt passes its time gate
AdaptationDue == now - last_adaptation_time >= BatchAdaptationSeconds

\* node_batch_sizes after evaluate_and_adapt, profiles being what
\* get_node_profile reports for each worker: set_batch_size constrains the
\* size once more
evaluate_and_adapt(profiles) ==
    IF ~AdaptationDue THEN node_batch_sizes
    ELSE [n \in Nodes |->
            IF node_batch_sizes[n] = NoBatch THEN NoBatch
            ELSE _constrain_batch_size(
                     _calculate_optimal_batch_size(profiles[n], throughput_history[n],
                                                   node_batch_sizes[n]))]

(***************************************************************************)
(* NodeRegistry, holding the entry of the worker node_ids[1]               *)
(***************************************************************************)
\* register_node(NodeMetadata(node_id, ...)): the status defaults to initializing
RegistryRegisterNode ==
    /\ node_status[node_ids[1]] = NoStatus
    /\ node_status' = [node_status EXCEPT ![node_ids[1]] = "initializing"]
    /\ UNCHANGED <<orchVars, batchVars, selVars, now, nonAdaptVars>>

\* update_node_status(node_id, status)
UpdateNodeStatus ==
    \E status \in NodeStatuses :
        /\ node_status[node_ids[1]] \notin {NoStatus, status}
        /\ node_status' = [node_status EXCEPT ![node_ids[1]] = status]
        /\ UNCHANGED <<orchVars, batchVars, selVars, now, nonAdaptVars>>

\* NodeMetadata.is_healthy
is_healthy(status) == status \in {"ready", "training", "idle"}

(***************************************************************************)
(* AdaptiveOrchestrator, driven as its callers drive it: a worker is       *)
(* registered and start_training is called before the first round, then    *)
(* for round_num = 0, 1, ... the driver calls pre_round_adaptation, trains  *)
(* and, when the round produced losses, calls post_round_evaluation for    *)
(* the same round; the first MaxMetrics rounds produce losses. One worker, *)
(* node_ids[1], is registered; the driver may list any workers as          *)
(* available. enable_rollback is True.                                     *)
(***************************************************************************)
\* the setup of one worker: batch_controller.register_node(node_id), then
\* node_selector.register_node(node_id)
RegisterWorker ==
    /\ phase = "initialization"
    /\ node_batch_sizes[node_ids[1]] = NoBatch
    /\ batch_register_node(node_ids[1])
    /\ register_node(node_ids[1])
    /\ UNCHANGED <<orchVars, node_status, now, nonAdaptVars>>

\* start_training()
StartTraining ==
    /\ phase = "initialization"
    /\ phase' = "warmup"
    /\ orch_current_round' = 0
    /\ monitoring_active' = TRUE
    /\ mon_ret' = IF monitoring_active THEN mon_ret ELSE "monitoring_started"
    /\ UNCHANGED <<adaptation_policy, round_metrics, last_adaptation_round,
                   adaptations_applied, adaptations_rolled_back,
                   configuration_history, decisions, round_num,
                   pre_adaptation_batch_sizes,
                   batchVars, node_status, selVars, now,
                   profileVars, recent_evaluations, streak_samples,
                   aggVars, global_step, obsVars, loopObsVars, mmVars,
                   separateVars>>

\* the phase in which _should_adapt_this_round never adapts; a variant that
\* knows no such phase
InWarmup_Never(p) == FALSE

InWarmup(p) == p = "warmup"

\* "don't adapt too frequently"; a variant without the minimum interval
TooSoon_Never(rounds_since_last, interval) == FALSE

TooSoon(rounds_since_last, interval) == rounds_since_last < interval

\* _should_adapt_this_round(round_number), network_issues being whether
\* get_problematic_nodes() is non-empty
_should_adapt_this_round(round_number, network_issues) ==
    LET rounds_since_last == round_number - last_adaptation_round
    IN  IF InWarmup(phase) THEN FALSE
        ELSE IF TooSoon(rounds_since_last, adaptation_interval) THEN FALSE
        ELSE IF adaptation_policy = "conservative"
        THEN ~TooSoon(rounds_since_last, adaptation_interval * 2)
        ELSE IF adaptation_policy = "aggressive" THEN TRUE
        ELSE IF adaptation_policy = "reactive"
        THEN network_issues \/ rounds_since_last >= adaptation_interval
        ELSE TRUE

\* the last k elements of q
LastOf(q, k) == SubSeq(q, Max(1, Len(q) - k + 1), Len(q))

\* _save_configuration_snapshot on the given controller and selector state
Snapshot(round, sizes, states) ==
    [round |-> round, batch_sizes |-> sizes, node_states |-> states]

\* whether get_problematic_nodes() is non-empty: only the reactive policy asks
ProblemReports == IF adaptation_policy = "reactive" THEN BOOLEAN ELSE {FALSE}

\* the quality scores a selection among the given workers can read
QualityReportsFor(available_nodes) ==
    {q \in QualityReports : \A n \in Nodes \ available_nodes : q[n] = NoProfile}

\* what get_node_profile reports to evaluate_and_adapt, which asks for the
\* registered workers when the adaptation is due
ProfileReports ==
    {p \in [Nodes -> NodeProfiles] :
        \A n \in Nodes : (node_batch_sizes[n] = NoBatch \/ ~AdaptationDue)
                             => p[n] = NoNodeProfile}

\* pre_round_adaptation(available_nodes, round_number)
PreRoundAdaptation ==
    \E available_nodes \in SUBSET Nodes, network_issues \in ProblemReports :
      LET round_number == round_num IN
        /\ phase # "initialization"
        /\ ~decisions.made
        /\ round_number <= MaxOrchRound
        /\ round_num' = round_num + 1
        /\ orch_current_round' = round_number
        /\ IF ~_should_adapt_this_round(round_number, network_issues)
           THEN /\ decisions' = [made |-> TRUE, round |-> round_number,
                                 adapted |-> FALSE,
                                 available |-> available_nodes,
                                 selected_nodes |-> available_nodes,
                                 batch_sizes |-> [n \in available_nodes |->
                                                    get_batch_size(node_batch_sizes, n)]]
                /\ UNCHANGED <<last_adaptation_round, adaptations_applied,
                               configuration_history, pre_adaptation_batch_sizes,
                               batchVars, selVars>>
           ELSE \E quality \in QualityReportsFor(available_nodes),
                   profiles \in ProfileReports :
                /\ select_nodes(FALSE, available_nodes, quality)
                /\ node_batch_sizes' = evaluate_and_adapt(profiles)
                /\ last_adaptation_time' =
                       IF AdaptationDue THEN now ELSE last_adaptation_time
                /\ configuration_history' =
                       LastOf(Append(configuration_history,
                                     Snapshot(round_number, node_batch_sizes',
                                              node_states')),
                              max_history)
                /\ last_adaptation_round' = round_number
                /\ adaptations_applied' = adaptations_applied + 1
                /\ pre_adaptation_batch_sizes' = node_batch_sizes
                /\ decisions' = [made |-> TRUE, round |-> round_number,
                                 adapted |-> TRUE,
                                 available |-> available_nodes,
                                 selected_nodes |-> selected',
                                 batch_sizes |-> [n \in selected' |->
                                                    get_batch_size(node_batch_sizes', n)]]
        /\ UNCHANGED <<adaptation_policy, phase, round_metrics,
                       adaptations_rolled_back, node_status, now, nonAdaptVars>>

\* _evaluate_performance_trend: of the last ten records the first five are
\* the older ones; recent_avg < older_avg or improvement_rate > -0.05
_evaluate_performance_trend(metrics) ==
    LET window == LastOf(metrics, 10)
        older == SubSeq(window, 1, Min(5, Len(window)))
        recent == SubSeq(window, 6, Len(window))
    IN  IF Len(metrics) < TrendMinRecords THEN TRUE
        ELSE IF recent = <<>> \/ older = <<>> THEN TRUE
        ELSE \/ SumSeq(recent) * Len(older) < SumSeq(older) * Len(recent)
             \/ 100 * SumSeq(recent) * Len(older) < 105 * SumSeq(older) * Len(recent)

\* the test of _maybe_rollback_adaptation: the last three records are more
\* than 10% worse than the three before them
RollbackDecided(metrics) ==
    /\ configuration_history # <<>>
    /\ Len(metrics) >= RollbackMinRecords
    /\ 10 * SumSeq(LastOf(metrics, 3)) > 11 * SumSeq(SubSeq(LastOf(metrics, 6), 1, 3))

\* whether post_round_evaluation(round_number, ...) reaches
\* _maybe_rollback_adaptation and that decides to roll back
RollsBack(round_number, metrics) ==
    /\ ~_evaluate_performance_trend(metrics)
    /\ adaptations_applied > 0
    /\ round_number - last_adaptation_round <= RollbackWindow
    /\ Len(metrics) >= RollbackMinRecords
    /\ RollbackDecided(metrics)

\* np.std(losses) / (np.mean(losses) + 1e-8) < 0.05 for positive losses:
\* 400 * (n * sum of squares - sum^2) < sum^2
LossStabilized(losses) ==
    LET n == Len(losses)
        total == SumSeq(losses)
        squares == SumSeq([i \in 1..n |-> losses[i] * losses[i]])
    IN  400 * (n * squares - total * total) < total * total

\* _update_training_phase
_update_training_phase(metrics) ==
    IF phase = "warmup"
    THEN IF orch_current_round >= warmup_rounds THEN "adaptive_training" ELSE phase
    ELSE IF phase = "adaptive_training"
    THEN IF /\ Len(metrics) >= ConvergenceRecords
            /\ LossStabilized(LastOf(metrics, ConvergenceRecords))
         THEN "convergence" ELSE phase
    ELSE phase

\* post_round_evaluation(round_number, round_metrics)
PostRoundEvaluation ==
    \E loss \in Losses :
        LET round_number == orch_current_round
            metrics == LastOf(Append(round_metrics, loss), MetricsLimit)
            restores == RollsBack(round_number, metrics) /\ Len(configuration_history) >= 2
            snapshot == configuration_history[Len(configuration_history) - 1]
        IN  /\ Len(round_metrics) < MaxMetrics
            /\ decisions.made
            /\ decisions' = NoDecisions
            /\ round_metrics' = metrics
            /\ adaptations_rolled_back' =
                   IF RollsBack(round_number, metrics) THEN adaptations_rolled_back + 1
                   ELSE adaptations_rolled_back
            /\ IF restores
               THEN \* _rollback_to_snapshot
                    /\ node_batch_sizes' =
                           [n \in Nodes |-> IF snapshot.batch_sizes[n] = NoBatch
                                            THEN node_batch_sizes[n]
                                            ELSE _constrain_batch_size(snapshot.batch_sizes[n])]
                    /\ force_include_nodes({n \in Nodes : snapshot.node_states[n] = "active"})
               ELSE UNCHANGED <<node_batch_sizes, selVars>>
            /\ phase' = _update_training_phase(metrics)
            /\ UNCHANGED <<adaptation_policy, orch_current_round, last_adaptation_round,
                           adaptations_applied, configuration_history, round_num,
                           pre_adaptation_batch_sizes, last_adaptation_time,
                           node_status, now, nonAdaptVars>>

\* a round that produced no losses: the driver skips post_round_evaluation;
\* the rounds after the MaxMetrics-th record are of this kind
RoundWithoutLosses ==
    /\ decisions.made
    /\ Len(round_metrics) >= MaxMetrics
    /\ decisions' = NoDecisions
    /\ UNCHANGED <<adaptation_policy, phase, orch_current_round, round_metrics,
                   last_adaptation_round, adaptations_applied,
                   adaptations_rolled_back, configuration_history, round_num,
                   pre_adaptation_batch_sizes, batchVars, node_status, selVars,
                   now, nonAdaptVars>>

OrchTick ==
    /\ now + BatchAdaptationSeconds <= MaxOrchTime
    /\ now' = now + BatchAdaptationSeconds
    /\ UNCHANGED <<selVars, adaptVars, nonAdaptVars>>

OrchestratorNext ==
    \/ RegisterWorker
    \/ StartTraining
    \/ PreRoundAdaptation
    \/ PostRoundEvaluation
    \/ RoundWithoutLosses
    \/ OrchTick

OrchestratorInit ==
    InitAll({DefaultMinNodesPct}, {DefaultStrategy}, AdaptationPolicies)

OrchestratorSpec == OrchestratorInit /\ [][OrchestratorNext]_vars


\* C17: a pre_round_adaptation call made in the warmup phase adapts nothing:
\* it returns the available workers as given, each with the batch size the
\* controller holds for it, and leaves the batch sizes, the selector, the
\* configuration history and the adaptation counter as they were.
C17_NoAdaptationInWarmup ==
    [][(decisions'.made /\ ~decisions.made /\ phase = "warmup")
       => /\ ~decisions'.adapted
          /\ decisions'.selected_nodes = decisions'.available
          /\ \A n \in decisions'.available :
                 decisions'.batch_sizes[n] = get_batch_size(node_batch_sizes, n)
          /\ UNCHANGED <<batchVars, selVars, configuration_history,
                         adaptations_applied, last_adaptation_round>>]_vars

\* pre_round_adaptation has returned every worker in a warmup round at which
\* the reactive schedule would otherwise adapt
C17_Witness ==
    /\ decisions.made
    /\ phase = "warmup"
    /\ adaptation_policy = "reactive"
    /\ orch_current_round - last_adaptation_round >= adaptation_interval
    /\ ~decisions.adapted
    /\ decisions.selected_nodes = Nodes
    /\ node_batch_sizes[node_ids[1]] # NoBatch

\* C18: while a round of a started session is in progress, the phase is
\* warmup if the round's number is below warmup_rounds, and adaptive_training
\* or a later phase otherwise.
C18_WarmupUntilWarmupRounds ==
    (decisions.made /\ phase # "initialization")
    => /\ orch_current_round < warmup_rounds => phase = "warmup"
       /\ orch_current_round >= warmup_rounds
              => phase \in {"adaptive_training", "convergence", "completed"}

\* C19: the rounds of any two consecutive adaptations, as the configuration
\* history records them, are at least adaptation_interval apart, and at least
\* 2 * adaptation_interval apart under the conservative policy.
C19_AdaptationsSpaced ==
    \A i \in 1..(Len(configuration_history) - 1) :
        LET gap == configuration_history[i + 1].round - configuration_history[i].round
        IN  /\ gap >= adaptation_interval
            /\ adaptation_policy = "conservative" => gap >= 2 * adaptation_interval

\* the conservative policy has adapted twice, the second time as early as it
\* may, and every adaptation made is in the history
C19_Witness ==
    /\ adaptation_policy = "conservative"
    /\ adaptations_applied = 2
    /\ Len(configuration_history) = 2
    /\ configuration_history[2].round - configuration_history[1].round
           = 2 * adaptation_interval

\* C20: when post_round_evaluation rolls an adaptation back, every registered
\* worker's batch size afterwards is the one the controller held when the
\* last adaptation began.
C20_RollbackRestoresBatchSizes ==
    [][adaptations_rolled_back' = adaptations_rolled_back + 1
       => \A n \in Nodes :
              pre_adaptation_batch_sizes[n] # NoBatch
                  => node_batch_sizes'[n] = pre_adaptation_batch_sizes[n]]_vars

\* a call of start_training, pre_round_adaptation or post_round_evaluation
\* has been made in this step; the body of each runs under "with self.lock",
\* so whatever the step changes is changed while the orchestrator's lock is
\* held
UnderOrchestratorLock == decisions'.made # decisions.made \/ phase' # phase

\* C31: while the orchestrator holds its lock it calls no state-mutating
\* operation of the selector, the batch controller or the monitor: a step of
\* start_training, pre_round_adaptation or post_round_evaluation leaves the
\* state of these components as it was.
C31_NoMutationUnderLock ==
    [][UnderOrchestratorLock
       => UNCHANGED <<selVars, batchVars, monitoring_active>>]_vars

\* C37: the rollback counter changes only in a post_round_evaluation call
\* whose rollback restored a snapshot, by one; when the configuration
\* history holds no earlier snapshot the counter stays as it is.
C37_RollbackCounted ==
    [][adaptations_rolled_back' # adaptations_rolled_back
       => /\ adaptations_rolled_back' = adaptations_rolled_back + 1
          /\ Len(configuration_history) >= 2
          /\ LET snapshot == configuration_history[Len(configuration_history) - 1]
             IN  \A n \in Nodes : snapshot.batch_sizes[n] # NoBatch
                     => node_batch_sizes'[n] = _constrain_batch_size(snapshot.batch_sizes[n])]_vars

(***************************************************************************)
(* RegistrySpec: the orchestrator under its default policy, next to a      *)
(* registry whose entry for the worker changes status at any time.         *)
(***************************************************************************)
RegistryNext ==
    \/ RegistryRegisterNode
    \/ UpdateNodeStatus
    \/ RegisterWorker
    \/ StartTraining
    \/ PreRoundAdaptation
    \/ PostRoundEvaluation

RegistryInit == InitAll({DefaultMinNodesPct}, {DefaultStrategy}, {DefaultPolicy})

RegistrySpec == RegistryInit /\ [][RegistryNext]_vars

\* C16: every worker pre_round_adaptation returns as selected, and the
\* registry holds an entry for, has status ready, training or idle at that
\* moment.
C16_SelectedAreEligible ==
    [][(decisions'.made /\ ~decisions.made)
       => \A w \in decisions'.selected_nodes :
              node_status[w] # NoStatus => is_healthy(node_status[w])]_vars


(***************************************************************************)
(* BatchSpec: the batch controller driven on its own, under each of its    *)
(* strategies, for one worker, node_ids[1].                                *)
(***************************************************************************)
MaxThroughputRecords == 6
MaxBatchTime == 45
BatchTickStep == BatchAdaptationSeconds \div 2
\* the number of throughput records record_performance keeps
ThroughputHistoryLimit == 50

\* initial_batch_size of register_node: None (here NoBatch), or a size
InitialBatchSizes == {NoBatch, 8, 1000}
\* new_batch_size of set_batch_size
RequestedBatchSizes == {8, 100, 1000}
\* samples_processed and time_spent of record_performance
SamplesProcessed == {10, 20}
TimesSpent == {1}

\* the observation of a call: after_evaluation tells that the call before
\* it was one of evaluate_and_adapt at the same clock value
BatchCall(op, passed, changes) ==
    [op |-> op, passed |-> passed, changes |-> changes,
     after_evaluation |-> batch_ret.op = "evaluate_and_adapt"]

\* register_node(node_id, initial_batch_size)
BatchRegisterNode ==
    \E node_id \in {node_ids[1]}, initial_batch_size \in InitialBatchSizes :
        /\ node_batch_sizes' =
               [node_batch_sizes EXCEPT ![node_id] =
                   _constrain_batch_size(IF initial_batch_size = NoBatch
                                         THEN baseline_batch_size
                                         ELSE initial_batch_size)]
        /\ throughput_history' = [throughput_history EXCEPT ![node_id] = <<>>]
        /\ batch_ret' = BatchCall("other", FALSE, {})
        /\ UNCHANGED <<last_adaptation_time, batch_strategy, now, nonBatchVars>>

\* set_batch_size(node_id, new_batch_size)
SetBatchSize ==
    \E node_id \in {node_ids[1]}, new_batch_size \in RequestedBatchSizes :
      LET constrained == _constrain_batch_size(new_batch_size)
          old_batch_size == get_batch_size(node_batch_sizes, node_id)
      IN  /\ node_batch_sizes' =
                 IF old_batch_size # constrained
                 THEN [node_batch_sizes EXCEPT ![node_id] = constrained]
                 ELSE node_batch_sizes
          /\ batch_ret' = BatchCall("other", FALSE, {})
          /\ UNCHANGED <<last_adaptation_time, batch_strategy, throughput_history,
                         now, nonBatchVars>>

\* record_performance(node_id, samples_processed, time_spent)
RecordPerformance ==
    \E samples_processed \in SamplesProcessed, time_spent \in TimesSpent :
        /\ Len(throughput_history[node_ids[1]]) < MaxThroughputRecords
        /\ throughput_history' =
               IF time_spent > 0
               THEN [throughput_history EXCEPT ![node_ids[1]] =
                        LastK(Append(@, samples_processed \div time_spent),
                              ThroughputHistoryLimit)]
               ELSE throughput_history
        /\ batch_ret' = BatchCall("other", FALSE, {})
        /\ UNCHANGED <<batchVars, batch_strategy, now, nonBatchVars>>

\* evaluate_and_adapt()
EvaluateAndAdapt ==
    \E profiles \in ProfileReports :
        /\ node_batch_sizes' = evaluate_and_adapt(profiles)
        /\ last_adaptation_time' = IF AdaptationDue THEN now ELSE last_adaptation_time
        /\ batch_ret' =
               BatchCall("evaluate_and_adapt", AdaptationDue,
                         IF ~AdaptationDue THEN {}
                         ELSE {n \in Nodes :
                                 /\ node_batch_sizes[n] # NoBatch
                                 /\ _calculate_optimal_batch_size(
                                        profiles[n], throughput_history[n],
                                        node_batch_sizes[n]) # node_batch_sizes[n]})
        /\ UNCHANGED <<batch_strategy, throughput_history, now, nonBatchVars>>

BatchTick ==
    /\ now < MaxBatchTime
    /\ now' = now + BatchTickStep
    /\ batch_ret' = NoBatchCall
    /\ UNCHANGED <<batchVars, batch_strategy, throughput_history, nonBatchVars>>

BatchNext ==
    \/ BatchRegisterNode
    \/ SetBatchSize
    \/ RecordPerformance
    \/ EvaluateAndAdapt
    \/ BatchTick

BatchInit ==
    /\ CoreInit({DefaultMinNodesPct}, {DefaultStrategy}, {DefaultPolicy})
    /\ SeparateInit(BatchSizeStrategies)

BatchSpec == BatchInit /\ [][BatchNext]_vars

\* C21: every batch size the controller holds, and every size get_batch_size
\* reports, lies between min_batch_size and max_batch_size, whatever
\* register_node, set_batch_size, record_performance and evaluate_and_adapt
\* calls were made.
C21_BatchSizesWithinLimits ==
    \A n \in Nodes :
        /\ node_batch_sizes[n] # NoBatch
           => /\ node_batch_sizes[n] >= min_batch_size
              /\ node_batch_sizes[n] <= max_batch_size
        /\ get_batch_size(node_batch_sizes, n) >= min_batch_size
        /\ get_batch_size(node_batch_sizes, n) <= max_batch_size

\* an adaptation pass raised the size of a worker to the maximum after
\* performance was recorded
C21_Witness ==
    /\ node_batch_sizes[node_ids[1]] = max_batch_size
    /\ Len(throughput_history[node_ids[1]]) >= 5
    /\ batch_ret.op = "evaluate_and_adapt"
    /\ batch_ret.changes # {}

\* C22: evaluate_and_adapt makes a pass only when at least
\* BatchAdaptationSeconds have elapsed since the previous pass (or the
\* construction), and a call that immediately follows another call of
\* evaluate_and_adapt returns no change and changes no batch size.
C22_OnePassPerInterval ==
    [][(batch_ret'.op = "evaluate_and_adapt" /\ batch_ret' # batch_ret)
       => /\ batch_ret'.passed
             => now - last_adaptation_time >= BatchAdaptationSeconds
          /\ batch_ret'.after_evaluation
             => /\ batch_ret'.changes = {}
                /\ node_batch_sizes' = node_batch_sizes]_vars

\* a call directly after a pass that changed a batch size
C22_Witness ==
    /\ batch_ret.op = "evaluate_and_adapt"
    /\ batch_ret.after_evaluation
    /\ ~batch_ret.passed
    /\ last_adaptation_time = now
    /\ \E n \in Nodes : node_batch_sizes[n] \notin {NoBatch, baseline_batch_size}

(***************************************************************************)
(* CoordinatorSpec: the TrainingCoordinator's bookkeeping of its workers   *)
(***************************************************************************)
\* a threshold that the fifth failure does not reach
ReachedMaxFailures_Late(failures) == failures > max_failures

\* failures >= max_failures
ReachedMaxFailures(failures) == failures >= max_failures

\* node_registry.get_node(node_id) is not None
Registered(registry, node_id) == registry[node_id] # NoMetadata

\* register_node(node_metadata): an id the registry holds is updated through
\* node_registry.update_node, a new one is added with fresh health tracking
CoordRegisterNode ==
    \E node_id \in Nodes, node_metadata \in Metadata :
        /\ coord_registry' = [coord_registry EXCEPT ![node_id] = node_metadata]
        /\ node_health' =
               IF Registered(coord_registry, node_id) THEN node_health
               ELSE [node_health EXCEPT
                       ![node_id] = [known |-> TRUE, consecutive_failures |-> 0]]
        /\ coord_ret' = [op |-> "register_node", node |-> node_id,
                         metadata |-> node_metadata, result |-> TRUE]
        /\ UNCHANGED nonCoordVars

\* the registry and node_health after remove_node(node_id)
remove_node(node_id) ==
    IF Registered(coord_registry, node_id)
    THEN /\ coord_registry' = [coord_registry EXCEPT ![node_id] = NoMetadata]
         /\ node_health' = [node_health EXCEPT ![node_id] = NoHealth]
    ELSE UNCHANGED <<coord_registry, node_health>>

\* remove_node(node_id, reason)
CoordRemoveNode ==
    \E node_id \in Nodes :
        /\ remove_node(node_id)
        /\ coord_ret' = [op |-> "remove_node", node |-> node_id,
                         result |-> Registered(coord_registry, node_id)]
        /\ UNCHANGED nonCoordVars

\* update_node_heartbeat(node_id)
UpdateNodeHeartbeat ==
    \E node_id \in Nodes :
        /\ node_health' =
               IF ~node_health[node_id].known THEN node_health
               ELSE [node_health EXCEPT ![node_id].consecutive_failures = 0]
        /\ coord_ret' = [op |-> "update_node_heartbeat", node |-> node_id,
                         result |-> node_health[node_id].known]
        /\ UNCHANGED <<coord_registry, nonCoordVars>>

\* record_node_failure(node_id)
RecordNodeFailure ==
    \E node_id \in Nodes :
      LET failures == node_health[node_id].consecutive_failures + 1 IN
        /\ IF ~node_health[node_id].known
           THEN UNCHANGED <<coord_registry, node_health>>
           ELSE IF ReachedMaxFailures(failures)
                THEN IF Registered(coord_registry, node_id)
                     THEN remove_node(node_id)
                     ELSE /\ node_health' = [node_health EXCEPT
                                               ![node_id].consecutive_failures = failures]
                          /\ UNCHANGED coord_registry
                ELSE /\ node_health' = [node_health EXCEPT
                                          ![node_id].consecutive_failures = failures]
                     /\ UNCHANGED coord_registry
        /\ coord_ret' = [op |-> "record_node_failure", node |-> node_id,
                         result |-> node_health[node_id].known]
        /\ UNCHANGED nonCoordVars

CoordinatorNext ==
    \/ CoordRegisterNode
    \/ CoordRemoveNode
    \/ UpdateNodeHeartbeat
    \/ RecordNodeFailure

CoordinatorInit == InitAll({DefaultMinNodesPct}, {DefaultStrategy}, {DefaultPolicy})

CoordinatorSpec == CoordinatorInit /\ [][CoordinatorNext]_vars

\* C23: record_node_failure removes a worker exactly when the failure it
\* records is the fifth in a row (max_failures), a worker whose count stays
\* below five remains registered with the count raised by one, and a
\* heartbeat of a tracked worker resets its count to zero.
C23_RemovedOnFifthFailure ==
    [][\A w \in Nodes :
          /\ (coord_ret'.op = "record_node_failure" /\ coord_ret'.node = w
                  /\ Registered(coord_registry, w))
             => IF node_health[w].consecutive_failures + 1 = max_failures
                THEN ~Registered(coord_registry', w) /\ node_health'[w] = NoHealth
                ELSE /\ Registered(coord_registry', w)
                     /\ node_health'[w].consecutive_failures
                            = node_health[w].consecutive_failures + 1
                     /\ node_health'[w].consecutive_failures < max_failures
          /\ (coord_ret'.op = "update_node_heartbeat" /\ coord_ret'.node = w
                  /\ Registered(coord_registry, w))
             => /\ Registered(coord_registry', w)
                /\ node_health'[w].consecutive_failures = 0]_vars

\* a worker removed by its fifth failure in a row while another worker is
\* one failure short of removal
C23_Witness ==
    /\ coord_ret.op = "record_node_failure"
    /\ coord_ret.result
    /\ ~Registered(coord_registry, coord_ret.node)
    /\ \E n \in Nodes : /\ Registered(coord_registry, n)
                        /\ node_health[n].consecutive_failures = max_failures - 1

\* C24: register_node for an id the registry holds leaves one entry for the
\* id, the newly given one, and resets the worker's count of consecutive
\* failures to zero.
C24_ReRegistrationResetsFailures ==
    [][\A w \in Nodes :
          (coord_ret'.op = "register_node" /\ coord_ret'.node = w
              /\ Registered(coord_registry, w))
          => /\ coord_registry'[w] = coord_ret'.metadata
             /\ node_health'[w].known
             /\ node_health'[w].consecutive_failures = 0]_vars

(***************************************************************************)
(* RewardSpec: the RewardCalculator applied to the contribution map of a   *)
(* session. The int(...) of the code are divisions of integers here: for   *)
(* the pools and scores below both give the same numbers.                  *)
(***************************************************************************)
Pools == {MaxPool, MaxPool \div 10}
\* final_score, quality_score and reliability_score of a NodeContribution
ContributionKinds ==
    {[final_score |-> 0, quality_score |-> 0, reliability_score |-> 0],
     [final_score |-> 1, quality_score |-> 50, reliability_score |-> 0],
     [final_score |-> 30, quality_score |-> 0, reliability_score |-> 60],
     [final_score |-> 100, quality_score |-> 50, reliability_score |-> 60]}
\* the contribution maps, in the order of their items
ContributionMaps ==
    UNION {[1..n -> ContributionKinds] : n \in 0..MaxContributors}
RewardStrategy == {"proportional", "tiered", "performance_based", "hybrid"}

\* raise ValueError(...)
RewardError == [raised |-> TRUE, total_rewards |-> <<>>, total_distributed |-> 0]
\* a RewardDistribution: the total_reward of each NodeReward, in the order
\* of node_rewards, and total_distributed
RewardDistribution(total_rewards) ==
    [raised |-> FALSE, total_rewards |-> total_rewards,
     total_distributed |-> SumOf(total_rewards)]

\* sum(c.final_score for c in contributions.values())
TotalContribution(c) == SumOf([i \in 1..Len(c) |-> c[i].final_score])

\* calculate_proportional(contributions)
calculate_proportional(c) ==
    IF c = <<>> \/ TotalContribution(c) = 0 THEN RewardError
    ELSE RewardDistribution(
             [i \in 1..Len(c) |-> (total_pool * c[i].final_score) \div TotalContribution(c)])

\* sorted(..., key=final_score, reverse=True): a stable sort
RECURSIVE InsertDescending(_, _)
InsertDescending(x, q) ==
    IF q = <<>> THEN <<x>>
    ELSE IF Head(q).final_score >= x.final_score
         THEN <<Head(q)>> \o InsertDescending(x, Tail(q))
         ELSE <<x>> \o q
RECURSIVE SortDescending(_)
SortDescending(c) ==
    IF c = <<>> THEN <<>>
    ELSE InsertDescending(c[Len(c)], SortDescending(SubSeq(c, 1, Len(c) - 1)))

\* calculate_tiered(contributions)
calculate_tiered(c) ==
    IF c = <<>> \/ TotalContribution(c) = 0 THEN RewardError
    ELSE LET sorted_nodes == SortDescending(c)
             node_count == Len(sorted_nodes)
             tier1_cutoff == node_count \div 2
             tier2_cutoff == (node_count * 8) \div 10
             base_pool == (total_pool * 85) \div 100
             bonus_pool == total_pool - base_pool
             \* bonus_share, in hundredths; idx counts from 0 in the code
             bonus_share(idx) == IF idx - 1 < tier1_cutoff THEN 15
                                 ELSE IF idx - 1 < tier2_cutoff THEN 5 ELSE 0
         IN  RewardDistribution(
                 [idx \in 1..node_count |->
                     (base_pool * sorted_nodes[idx].final_score) \div TotalContribution(c)
                     + (bonus_pool * sorted_nodes[idx].final_score * bonus_share(idx))
                           \div (100 * TotalContribution(c))])

\* calculate_with_minimum(contributions, min_percentage=0.5)
calculate_with_minimum(c) ==
    IF c = <<>> \/ TotalContribution(c) = 0 THEN RewardError
    ELSE LET node_count == Len(c)
             min_reward == total_pool \div (2 * node_count)
             proportional_rewards ==
                 [i \in 1..node_count |->
                     (total_pool * c[i].final_score) \div TotalContribution(c)]
             below_min_nodes == {i \in 1..node_count : proportional_rewards[i] < min_reward}
             below_min_total ==
                 SumOf([i \in 1..node_count |->
                          IF i \in below_min_nodes
                          THEN min_reward - proportional_rewards[i] ELSE 0])
             above_min_nodes == (1..node_count) \ below_min_nodes
             above == Cardinality(above_min_nodes)
             \* int(proportional_rewards[node_id] - below_min_total / above)
             reduced(i) == proportional_rewards[i] * above - below_min_total
         IN  IF below_min_nodes = {} THEN RewardDistribution(proportional_rewards)
             ELSE IF above_min_nodes = {}
                  THEN RewardDistribution([i \in 1..node_count |->
                                              total_pool \div node_count])
                  ELSE RewardDistribution(
                           [i \in 1..node_count |->
                               IF i \in below_min_nodes \/ reduced(i) < 0 THEN min_reward
                               ELSE Max(min_reward, reduced(i) \div above)])

\* calculate_hybrid(contributions)
calculate_hybrid(c) ==
    IF c = <<>> \/ TotalContribution(c) = 0 THEN RewardError
    ELSE LET proportional_pool == (total_pool * 70) \div 100
             quality_bonus_pool == (total_pool * 20) \div 100
             reliability_bonus_pool == total_pool - proportional_pool - quality_bonus_pool
             total_quality == SumOf([i \in 1..Len(c) |-> c[i].quality_score])
             total_reliability == SumOf([i \in 1..Len(c) |-> c[i].reliability_score])
         IN  RewardDistribution(
                 [i \in 1..Len(c) |->
                     (proportional_pool * c[i].final_score) \div TotalContribution(c)
                     + (IF total_quality > 0
                        THEN (quality_bonus_pool * c[i].quality_score) \div total_quality
                        ELSE 0)
                     + (IF total_reliability > 0
                        THEN (reliability_bonus_pool * c[i].reliability_score)
                                 \div total_reliability
                        ELSE 0)])

\* RewardDistribution.validate(): the sum of the rewards against
\* total_distributed within a hundredth of the pool, and total_distributed
\* against the pool
validate(distribution) ==
    LET calculated_total == SumOf(distribution.total_rewards)
        difference == calculated_total - distribution.total_distributed
    IN  /\ ~(100 * (IF difference < 0 THEN -difference ELSE difference) > total_pool)
        /\ ~(distribution.total_distributed > total_pool)

\* the strategy's method, as calculate(contributions, strategy) calls it
StrategyResult(c, reward_strategy) ==
    CASE reward_strategy = "proportional" -> calculate_proportional(c)
      [] reward_strategy = "tiered" -> calculate_tiered(c)
      [] reward_strategy = "performance_based" -> calculate_with_minimum(c)
      [] reward_strategy = "hybrid" -> calculate_hybrid(c)

\* calculate(contributions, strategy)
calculate(c, reward_strategy) ==
    LET distribution == StrategyResult(c, reward_strategy)
    IN  IF distribution.raised \/ ~validate(distribution) THEN RewardError
        ELSE distribution

RewardCall(op, reward_strategy, result) ==
    [op |-> op, strategy |-> reward_strategy, raised |-> result.raised, total_rewards |-> result.total_rewards,
     total_distributed |-> result.total_distributed]

CalculateProportional ==
    /\ reward_ret' = RewardCall("calculate_proportional", "proportional",
                                calculate_proportional(contributions))
    /\ UNCHANGED <<total_pool, contributions, nonRewardVars>>

CalculateTiered ==
    /\ reward_ret' = RewardCall("calculate_tiered", "tiered",
                                calculate_tiered(contributions))
    /\ UNCHANGED <<total_pool, contributions, nonRewardVars>>

CalculateWithMinimum ==
    /\ reward_ret' = RewardCall("calculate_with_minimum", "performance_based",
                                calculate_with_minimum(contributions))
    /\ UNCHANGED <<total_pool, contributions, nonRewardVars>>

CalculateHybrid ==
    /\ reward_ret' = RewardCall("calculate_hybrid", "hybrid",
                                calculate_hybrid(contributions))
    /\ UNCHANGED <<total_pool, contributions, nonRewardVars>>

Calculate ==
    \E reward_strategy \in RewardStrategy :
        /\ reward_ret' = RewardCall("calculate", reward_strategy,
                                    calculate(contributions, reward_strategy))
        /\ UNCHANGED <<total_pool, contributions, nonRewardVars>>

RewardNext ==
    \/ CalculateProportional
    \/ CalculateTiered
    \/ CalculateWithMinimum
    \/ CalculateHybrid
    \/ Calculate

RewardSpecInit ==
    /\ CoreInit({DefaultMinNodesPct}, {DefaultStrategy}, {DefaultPolicy})
    /\ PerfInit({DefaultBatchStrategy})
    /\ CoordInit
    /\ RewardInit(Pools, ContributionMaps)
    /\ ContributionInit
    /\ ShardInit
    /\ WeightInit

RewardSpec == RewardSpecInit /\ [][RewardNext]_vars

\* a distribution was returned by the last call
Distributed == reward_ret.op # "none" /\ ~reward_ret.raised

\* C25: the total rewards of every distribution the calculator returns,
\* whatever the strategy and the contributions, sum to at most the pool.
C25_RewardsWithinPool ==
    Distributed => SumOf(reward_ret.total_rewards) <= total_pool

\* C26: the total rewards of every distribution the calculator returns sum
\* to at least 99% of the pool.
C26_RemainderWithinTolerance ==
    Distributed => 100 * SumOf(reward_ret.total_rewards) >= 99 * total_pool

\* C27: a distribution that calculate returns sums to at most the pool and
\* to within 1% of the pool; otherwise calculate fails.
C27_CalculateValidates ==
    (Distributed /\ reward_ret.op = "calculate")
    => /\ SumOf(reward_ret.total_rewards) <= total_pool
       /\ 100 * (total_pool - SumOf(reward_ret.total_rewards)) <= total_pool
       /\ 100 * (SumOf(reward_ret.total_rewards) - total_pool) <= total_pool

(***************************************************************************)
(* ContributionSpec: the ContributionCalculator of a session, for one      *)
(* worker. avg_latency_ms and uptime_percentage keep their default 0: the  *)
(* calculator never assigns them. The int(...) of the code are divisions   *)
(* of integers here: for the inputs below both give the same numbers.      *)
(***************************************************************************)
MaxSubmissions == 4
MaxComputeTime == 100
\* time_taken_seconds of the TrainingMetrics
TimesTaken == {50}
\* gradient_norm: None, or a norm
GradientNorms == {[given |-> FALSE, norm |-> 0], [given |-> TRUE, norm |-> 5],
                  [given |-> TRUE, norm |-> 20]}

\* register_node(node_id, node_address)
ContributionRegisterNode ==
    /\ contribution' = [contribution EXCEPT !.registered = TRUE]
    /\ UNCHANGED nonContributionVars

\* add_training_metrics(metrics)
AddTrainingMetrics ==
    \E time_taken_seconds \in TimesTaken :
        /\ contribution.compute_time < MaxComputeTime
        /\ contribution' = [contribution EXCEPT
                              !.registered = TRUE,
                              !.compute_time = @ + time_taken_seconds]
        /\ UNCHANGED nonContributionVars

\* record_gradient_submission(node_id, accepted, gradient_norm): the moving
\* average (avg * (total - 1) + gradient_norm) / total as a fraction
RecordGradientSubmission ==
    \E accepted \in BOOLEAN, gradient_norm \in GradientNorms :
      LET total == contribution.gradients_accepted + 1 IN
        /\ contribution.gradients_accepted + contribution.gradients_rejected
               < MaxSubmissions
        /\ accepted \/ ~gradient_norm.given
        /\ contribution' =
               IF ~contribution.registered THEN contribution
               ELSE IF accepted
                    THEN [contribution EXCEPT
                            !.gradients_accepted = @ + 1,
                            !.successful_rounds = @ + 1,
                            !.norm_num = IF gradient_norm.given
                                         THEN @ * (total - 1)
                                              + gradient_norm.norm * contribution.norm_den
                                         ELSE @,
                            !.norm_den = IF gradient_norm.given THEN @ * total ELSE @]
                    ELSE [contribution EXCEPT
                            !.gradients_rejected = @ + 1,
                            !.failed_rounds = @ + 1]
        /\ UNCHANGED nonContributionVars

\* calculate_quality_score(node_id)
contribution_quality_score(contrib) ==
    LET total_gradients == contrib.gradients_accepted + contrib.gradients_rejected
        acceptance_score == IF total_gradients = 0 THEN 0
                            ELSE (contrib.gradients_accepted * 5000) \div total_gradients
        consistency_score ==
            IF contrib.norm_num <= 0 THEN 0
            ELSE IF contrib.norm_num >= 10 * contrib.norm_den THEN 3000
                 ELSE (contrib.norm_num * 3000) \div (contrib.norm_den * 10)
        total_rounds == contrib.successful_rounds + contrib.failed_rounds
        success_score == IF total_rounds > 0
                         THEN (contrib.successful_rounds * 2000) \div total_rounds
                         ELSE 0
    IN  Min(10000, acceptance_score + consistency_score + success_score)

\* calculate_reliability_score(node_id): the network score and the uptime
\* score are their defaults, 2000 each
calculate_reliability_score(contrib) ==
    Min(10000, Min(5000, contrib.successful_rounds * 100) + 2000 + 2000)

\* calculate_final_score(node_id):
\* int(base_score * (0.5 + quality / 10000) * (0.8 + reliability / 10000 * 0.4))
\* the reliability score is a multiple of 100, so numerator and denominator
\* are both divided by 100
calculate_final_score(contrib) ==
    (contrib.compute_time * (5000 + contribution_quality_score(contrib))
                          * (200 + calculate_reliability_score(contrib) \div 100))
        \div 2500000

\* update_all_scores()
UpdateAllScores ==
    /\ contribution' =
           IF ~contribution.registered THEN contribution
           ELSE [contribution EXCEPT
                   !.quality_score = contribution_quality_score(contribution),
                   !.reliability_score = calculate_reliability_score(contribution),
                   !.final_score = calculate_final_score(contribution)]
    /\ UNCHANGED nonContributionVars

ContributionNext ==
    \/ ContributionRegisterNode
    \/ AddTrainingMetrics
    \/ RecordGradientSubmission
    \/ UpdateAllScores

ContributionSpecInit == InitAll({DefaultMinNodesPct}, {DefaultStrategy}, {DefaultPolicy})

ContributionSpec == ContributionSpecInit /\ [][ContributionNext]_vars

\* C28: none of a worker's quality_score, reliability_score and final_score
\* ever decreases while metrics and submission results are recorded and the
\* scores are recomputed.
C28_ScoresNeverDecrease ==
    [][/\ contribution'.quality_score >= contribution.quality_score
       /\ contribution'.reliability_score >= contribution.reliability_score
       /\ contribution'.final_score >= contribution.final_score]_vars

(***************************************************************************)
(* ShapeSpec: the aggregator driven through its interface as in Spec, the  *)
(* submissions including a gradient dict with a misshapen array.           *)
(***************************************************************************)
ShapeStartRound == StartRound

ShapeReceiveGradient ==
    \E node_id \in Nodes, gradients \in Submissions \cup {Misshaped} :
        /\ 1 <= current_round
        /\ receive_gradient(node_id, gradients, current_round)

ShapeShouldAggregate == ShouldAggregate

ShapeTick == Tick

ShapeNext ==
    \/ ShapeStartRound
    \/ ShapeReceiveGradient
    \/ ShapeShouldAggregate
    \/ ShapeTick

ShapeSpec == Init /\ [][ShapeNext]_vars

\* C30: receive_gradient rejects a submission in which a parameter's array
\* has another shape than expected, so the received map of the round never
\* holds such a submission.
C30_MisshapedNeverStored == \A n \in Nodes : received_gradients[n] # Misshaped


(***************************************************************************)
(* RoundSpec: the aggregator driven through its interface as in Spec,      *)
(* together with aggregate_round, which may be called at any time of a     *)
(* round.                                                                  *)
(***************************************************************************)
RoundStartRound == StartRound

RoundReceiveGradient == ReceiveGradient

RoundShouldAggregate == ShouldAggregate

\* aggregate_round(parameter_shapes): with no gradient received it returns
\* None and assigns nothing; otherwise it returns the aggregate and appends
\* the round to gradient_history. The received map is left as it is.
AggregateRound ==
    LET result == aggregate_round_result(received_gradients) IN
    /\ 1 <= current_round
    /\ Len(gradient_history) < MaxRound
    /\ ret' = result
    /\ gradient_history' =
           IF result = "aggregated"
           THEN _record_round_history(gradient_history, current_round,
                                      received_gradients, expected_nodes)
           ELSE gradient_history
    /\ UNCHANGED <<current_round, expected_nodes, received_gradients, round_start_time,
                   rejected_gradients, min_nodes_percentage, now, global_step,
                   sub_round, ready_returned, loopObsVars, nonAggVars>>

RoundTick == Tick

RoundNext ==
    \/ RoundStartRound
    \/ RoundReceiveGradient
    \/ RoundShouldAggregate
    \/ AggregateRound
    \/ RoundTick

RoundSpec == Init /\ [][RoundNext]_vars

\* the entries of gradient_history that tell of the given round
RecordsOf(round) == {i \in 1..Len(gradient_history) : gradient_history[i].round = round}

\* C29: when aggregate_round is called after the timeout of a round in which
\* no gradient was accepted, it yields no aggregate and the round is
\* recorded, as a round without contributing nodes, that is as failed.
C29_EmptyRoundRecordedFailed ==
    (/\ ret \in {"agg_none", "aggregated"}
     /\ Received = {}
     /\ Elapsed >= TimeoutSeconds)
    => /\ ret = "agg_none"
       /\ \E i \in RecordsOf(current_round) : gradient_history[i].num_nodes = 0


(***************************************************************************)
(* PhaseSpec: the orchestrator under its default policy with a driver that *)
(* may call start_training again and shutdown at any time of a session.    *)
(***************************************************************************)
\* start_training() on an orchestrator that was started before: the phase
\* and the round are assigned whatever they were
RestartTraining ==
    /\ phase # "initialization"
    /\ phase' = "warmup"
    /\ orch_current_round' = 0
    /\ monitoring_active' = TRUE
    /\ mon_ret' = IF monitoring_active THEN mon_ret ELSE "monitoring_started"
    /\ UNCHANGED <<adaptation_policy, round_metrics, last_adaptation_round,
                   adaptations_applied, adaptations_rolled_back,
                   configuration_history, decisions, round_num,
                   pre_adaptation_batch_sizes,
                   batchVars, node_status, selVars, now,
                   profileVars, recent_evaluations, streak_samples,
                   aggVars, global_step, obsVars, loopObsVars, mmVars,
                   separateVars>>

\* shutdown(): stop_monitoring(), the final report, then the phase
Shutdown ==
    /\ phase # "completed"
    /\ monitoring_active' = FALSE
    /\ mon_ret' = "monitoring_stopped"
    /\ phase' = "completed"
    /\ UNCHANGED <<adaptation_policy, orch_current_round, round_metrics,
                   last_adaptation_round, adaptations_applied, adaptations_rolled_back,
                   configuration_history, decisions, round_num,
                   pre_adaptation_batch_sizes,
                   batchVars, node_status, selVars, now,
                   profileVars, recent_evaluations, streak_samples,
                   aggVars, global_step, obsVars, loopObsVars, mmVars,
                   separateVars>>

PhaseRegisterWorker == RegisterWorker

PhaseStartTraining == StartTraining

PhasePreRoundAdaptation == PreRoundAdaptation

PhasePostRoundEvaluation == PostRoundEvaluation

PhaseRoundWithoutLosses == RoundWithoutLosses

PhaseNext ==
    \/ PhaseRegisterWorker
    \/ PhaseStartTraining
    \/ RestartTraining
    \/ PhasePreRoundAdaptation
    \/ PhasePostRoundEvaluation
    \/ PhaseRoundWithoutLosses
    \/ Shutdown

PhaseSpec == RegistryInit /\ [][PhaseNext]_vars

\* TrainingPhase, in the order of its members
PhaseOrder == <<"initialization", "warmup", "adaptive_training", "convergence", "completed">>
PhaseRank(p) == CHOOSE i \in 1..Len(PhaseOrder) : PhaseOrder[i] = p

\* C38: the phase only moves forward in the order initialization, warmup,
\* adaptive_training, convergence, completed, whatever calls are made; in
\* particular nothing leaves completed.
C38_PhaseOnlyForward == [][PhaseRank(phase') >= PhaseRank(phase)]_vars


(***************************************************************************)
(* QuarantineSpec: the selector with its defaults and workers that each    *)
(* report some successful contributions and then only failed ones, while   *)
(* the clock advances.                                                     *)
(***************************************************************************)
ScenarioContribution ==
    \E node_id \in Nodes, times \in ContributionTimes, success \in BOOLEAN :
        LET contrib == node_contributions[node_id] IN
        /\ success => /\ contrib.failed_contributions = 0
                      /\ contrib.successful_contributions < MaxScenarioSuccesses
        /\ ~success => contrib.failed_contributions < MaxScenarioFailures
        /\ record_contribution(node_id, times, success)

ScenarioTick == SelTick

QuarantineNext ==
    \/ ScenarioContribution
    \/ ScenarioTick

QuarantineSpec == WorkerInit /\ [][QuarantineNext]_vars

\* C33: a worker with 4 successful and 4 failed contributions is not
\* quarantined, and once 4 further failures have followed it is quarantined,
\* the expiry being the time of the quarantine plus quarantine_duration.
C33_QuarantinedAfterFurtherFailures ==
    \A w \in Nodes :
        LET contrib == node_contributions[w] IN
        /\ (contrib.successful_contributions = 4 /\ contrib.failed_contributions = 4)
               => node_states[w] # "quarantined"
        /\ (contrib.successful_contributions = 4 /\ contrib.failed_contributions = 8)
               => /\ node_states[w] = "quarantined"
                  /\ \E t \in 0..now : quarantined_nodes[w] = t + quarantine_duration


(***************************************************************************)
(* HysteresisSpec: the monitor with one worker whose communications are    *)
(* first fast and successful, then slow, with no time passing.             *)
(***************************************************************************)
\* the sequence of n entries x
Repeated(x, n) == [i \in 1..n |-> x]

FastSample == [latency_ms |-> 20, success |-> TRUE]

ScenarioFastCommunication ==
    /\ latency_history = Repeated(FastSample.latency_ms, Len(latency_history))
    /\ Len(latency_history) < MaxFastSamples
    /\ record_communication(FastSample)

ScenarioSlowCommunication ==
    \E sample \in Samples \ {FastSample} :
        /\ Len(latency_history) < MaxFastSamples + MaxSlowSamples
        /\ record_communication(sample)

HysteresisNext ==
    \/ ScenarioFastCommunication
    \/ ScenarioSlowCommunication

HysteresisSpec == MonitorInit /\ [][HysteresisNext]_vars

\* C34: after 10 successful 20 ms communications the band is excellent; it
\* is still excellent after one further 400 ms sample, and critical after
\* three 400 ms samples in a row.
C34_CriticalAfterThreeSlowSamples ==
    /\ latency_history = Repeated(20, 10) => current_quality = "excellent"
    /\ latency_history = Repeated(20, 10) \o Repeated(400, 1)
           => current_quality = "excellent"
    /\ latency_history = Repeated(20, 10) \o Repeated(400, 3)
           => current_quality = "critical"


(***************************************************************************)
(* ShardSpec: the DataShardManager with a loaded dataset. A shard is named *)
(* by its position in the list create_shards built, which stands for the   *)
(* sample indices of that shard; no operation changes the indices of a     *)
(* shard.                                                                  *)
(***************************************************************************)
\* list.pop(i) for a valid position i, counted from 0: the list without
\* the entry
Pop(q, i) == SubSeq(q, 1, i) \o SubSeq(q, i + 2, Len(q))

\* create_shards(num_shards): all shards unassigned, in order
CreateShards ==
    \E n \in 1..MaxShards :
        /\ orphaned_shards' = [i \in 1..n |-> i]
        /\ shards' = [node \in Nodes |-> NoShard]
        /\ num_shards' = n
        /\ UNCHANGED nonShardVars

\* assign_shard(node_id, shard_index)
AssignShard ==
    \E node_id \in Nodes, shard_index \in {NoIndex} \cup (0..(MaxShards - 1)) :
        LET position == IF shard_index = NoIndex THEN 0 ELSE shard_index IN
        /\ num_shards > 0
        /\ IF orphaned_shards = <<>> \/ position >= Len(orphaned_shards)
           THEN UNCHANGED <<shards, orphaned_shards>>
           ELSE /\ orphaned_shards' = Pop(orphaned_shards, position)
                /\ shards' = [shards EXCEPT ![node_id] = orphaned_shards[position + 1]]
        /\ UNCHANGED <<num_shards, nonShardVars>>

\* reassign_shard(old_node_id, new_node_id)
ReassignShard ==
    \E old_node_id \in Nodes, new_node_id \in Nodes :
        /\ num_shards > 0
        /\ IF shards[old_node_id] = NoShard
           THEN UNCHANGED shards
           ELSE shards' = [[shards EXCEPT ![old_node_id] = NoShard]
                              EXCEPT ![new_node_id] = shards[old_node_id]]
        /\ UNCHANGED <<orphaned_shards, num_shards, nonShardVars>>

\* release_shard(node_id)
ReleaseShard ==
    \E node_id \in Nodes :
        /\ num_shards > 0
        /\ IF shards[node_id] = NoShard
           THEN UNCHANGED <<shards, orphaned_shards>>
           ELSE /\ orphaned_shards' = Append(orphaned_shards, shards[node_id])
                /\ shards' = [shards EXCEPT ![node_id] = NoShard]
        /\ UNCHANGED <<num_shards, nonShardVars>>

ShardNext ==
    \/ CreateShards
    \/ AssignShard
    \/ ReassignShard
    \/ ReleaseShard

ShardSpec == Init /\ [][ShardNext]_vars

\* get_shard_statistics: num_assigned_shards and num_orphaned_shards
num_assigned_shards == Cardinality({n \in Nodes : shards[n] # NoShard})
num_orphaned_shards == Len(orphaned_shards)

\* the number of places, assigned or orphaned, that hold the given shard
Holders(shard) ==
    Cardinality({n \in Nodes : shards[n] = shard})
    + Cardinality({i \in 1..Len(orphaned_shards) : orphaned_shards[i] = shard})

\* C40: after create_shards(n) and any assign_shard, release_shard and
\* reassign_shard calls, the assigned and the orphaned shards are n together
\* and each of the n shards is held exactly once, so every sample index
\* belongs to exactly one shard.
C40_ShardsConserved ==
    /\ num_assigned_shards + num_orphaned_shards = num_shards
    /\ \A shard \in 1..num_shards : Holders(shard) = 1


(***************************************************************************)
(* SessionSpec: the orchestrator under its default policy with a worker,   *)
(* node_ids[1], whose contributions the driver records with the selector   *)
(* while a round is in progress.                                           *)
(***************************************************************************)
SessionRegisterWorker == RegisterWorker

SessionStartTraining == StartTraining

SessionPreRoundAdaptation == PreRoundAdaptation

\* node_selector.record_contribution(node_id, ...) for the round in
\* progress; the session is followed for as many contributions as a
\* quarantine takes
SessionContribution ==
    \E times \in ContributionTimes, success \in BOOLEAN :
        /\ decisions.made
        /\ contributions_recorded < quarantine_threshold
        /\ record_contribution(node_ids[1], times, success)

SessionPostRoundEvaluation == PostRoundEvaluation

SessionRoundWithoutLosses == RoundWithoutLosses

SessionNext ==
    \/ SessionRegisterWorker
    \/ SessionStartTraining
    \/ SessionPreRoundAdaptation
    \/ SessionContribution
    \/ SessionPostRoundEvaluation
    \/ SessionRoundWithoutLosses

SessionSpec == RegistryInit /\ [][SessionNext]_vars

\* C35: the selected set pre_round_adaptation returns, whether the round
\* adapts or not, holds no worker that the selector has in quarantine at
\* that moment with an expiry in the future.
C35_NoQuarantinedWorkerSelected ==
    [][(decisions'.made /\ ~decisions.made)
       => \A w \in decisions'.selected_nodes :
              ~(node_states'[w] = "quarantined" /\ quarantined_nodes'[w] > now')]_vars


(***************************************************************************)
(* WeightedSpec: the aggregator constructed with the weighted_average      *)
(* strategy and driven through start_round, receive_gradient with          *)
(* metadata, and aggregate_round. A gradient is one number for one         *)
(* parameter.                                                              *)
(***************************************************************************)
\* the sum of f[n] over the nodes of S
RECURSIVE SumNodes(_, _)
SumNodes(f, S) ==
    IF S = {} THEN 0
    ELSE LET n == CHOOSE m \in S : TRUE IN f[n] + SumNodes(f, S \ {n})

\* _aggregate_simple_average: the sum of the gradients over their number
_aggregate_simple_average(rcv) ==
    [kind |-> "value",
     num |-> SumNodes([n \in Nodes |-> IF rcv[n] = NoGrad THEN 0 ELSE rcv[n].v],
                      ReceivedOf(rcv)),
     den |-> Cardinality(ReceivedOf(rcv))]

\* _aggregate_weighted_average: node_weights has an entry for each node of
\* gradient_metadata; a gradient of a node without an entry is weighted 1.0
_aggregate_weighted_average(rcv, metadata) ==
    LET with_metadata == {n \in Nodes : metadata[n].given}
        node_weights == [n \in Nodes |->
                            IF metadata[n].given /\ metadata[n].has_samples
                            THEN metadata[n].data_samples ELSE 1]
        total_weight == SumNodes(node_weights, with_metadata)
    IN  IF with_metadata = {} THEN _aggregate_simple_average(rcv)
        ELSE IF total_weight = 0 THEN _aggregate_simple_average(rcv)
        ELSE [kind |-> "value",
              num |-> SumNodes([n \in Nodes |-> IF rcv[n] = NoGrad THEN 0
                                                ELSE rcv[n].v * node_weights[n]],
                               ReceivedOf(rcv)),
              den |-> total_weight]

\* start_round(round_number, expected_node_ids) for the next round
WeightedStartRound ==
    /\ global_step < MaxRound
    /\ \E expected \in (SUBSET Nodes) \ {{}} :
         /\ global_step' = NextGlobalStep
         /\ start_round(NextGlobalStep, expected)
    /\ gradient_metadata' = [n \in Nodes |-> NoGradientMetadata]
    /\ ret' = "started"
    /\ UNCHANGED <<rejected_gradients, gradient_history, min_nodes_percentage, now,
                   sub_round, ready_returned, aggregated,
                   loopObsVars, mmVars, monVars, selVars, adaptVars,
                   perfVars, coordVars, rewardVars, contribution, shardVars>>

\* receive_gradient(node_id, gradients, metadata)
WeightedReceiveGradient ==
    \E node_id \in Nodes, gradients \in Submissions, metadata \in MetadataInputs :
        LET out == ReceiveOutcome(expected_nodes, received_gradients, node_id, gradients) IN
        /\ 1 <= current_round
        /\ out # "accepted" => rejected_gradients < MaxRejected
        /\ received_gradients' =
               ReceiveStore(expected_nodes, received_gradients, node_id, gradients)
        /\ gradient_metadata' =
               IF out = "accepted" /\ metadata.given
               THEN [gradient_metadata EXCEPT ![node_id] = metadata]
               ELSE gradient_metadata
        /\ rejected_gradients' = IF out = "accepted" THEN rejected_gradients
                                 ELSE rejected_gradients + 1
        /\ ret' = out
        /\ UNCHANGED <<current_round, expected_nodes, round_start_time, gradient_history,
                       min_nodes_percentage, now, sub_round, ready_returned,
                       aggregated, nonWeightVars>>

\* aggregate_round(parameter_shapes) under weighted_average
WeightedAggregateRound ==
    LET result == aggregate_round_result(received_gradients) IN
    /\ 1 <= current_round
    /\ Len(gradient_history) < MaxRound
    /\ ret' = result
    /\ aggregated' = IF result = "aggregated"
                     THEN _aggregate_weighted_average(received_gradients,
                                                      gradient_metadata)
                     ELSE NoAggregate
    /\ gradient_history' =
           IF result = "aggregated"
           THEN _record_round_history(gradient_history, current_round,
                                      received_gradients, expected_nodes)
           ELSE gradient_history
    /\ UNCHANGED <<current_round, expected_nodes, received_gradients, round_start_time,
                   rejected_gradients, min_nodes_percentage, now, sub_round,
                   ready_returned, gradient_metadata, nonWeightVars>>

WeightedNext ==
    \/ WeightedStartRound
    \/ WeightedReceiveGradient
    \/ WeightedAggregateRound

WeightedSpec == InitWith({DefaultMinNodesPct}, {DefaultStrategy}) /\ [][WeightedNext]_vars

\* the weight of an accepted worker: its data_samples, 1 when its metadata
\* or the data_samples in it is absent
WorkerWeight(n) ==
    IF gradient_metadata[n].given /\ gradient_metadata[n].has_samples
    THEN gradient_metadata[n].data_samples ELSE 1

\* C32: the value aggregate_round returns under weighted_average is the
\* sum of weight times gradient over the sum of the weights, both taken over
\* all accepted workers, whenever that sum of weights is not zero; so the
\* normalised weights sum to 1, also when only some workers gave metadata.
C32_WeightedAverageNormalised ==
    LET weights == [n \in Nodes |-> WorkerWeight(n)]
        weighted == [n \in Nodes |-> IF received_gradients[n] = NoGrad THEN 0
                                     ELSE WorkerWeight(n) * received_gradients[n].v]
        total == SumNodes(weights, Received)
    IN  (ret = "aggregated" /\ aggregated.kind = "value" /\ total > 0)
        => aggregated.num * total = SumNodes(weighted, Received) * aggregated.den

====
